---- MODULE Spec2Model ----
(***************************************************************************)
(* Model of src/agents/system-prompt.ts: buildAgentSystemPrompt and        *)
(* buildRuntimeLine, with the SYSTEM.md override lookup.                   *)
(*                                                                         *)
(* Representation of strings.  A caller-supplied string is a sequence of   *)
(* UTF-16 code units (naturals), so that trim(), toLowerCase() and the     *)
(* default sort order are computed as JavaScript computes them.  A string  *)
(* the program builds is a sequence of fragments; a fragment is a literal  *)
(* of the source (lit) or a run of caller-supplied code units (cs).  The   *)
(* empty string is the empty sequence, so filter(Boolean) on an array of   *)
(* strings keeps the elements other than <<>>.  A grave accent in a        *)
(* literal of the source is written ^ here.                                *)
(***************************************************************************)
EXTENDS Integers, Sequences, FiniteSets, TLC

VARIABLES
    fs,        \* state of <workspaceDir>/SYSTEM.md on disk
    params,    \* the argument record of the current buildAgentSystemPrompt call
    pc,        \* position of the call
    template,  \* what readSystemTemplateSync returned to the call
    result,    \* the string the call returned
    autoescape,  \* the autoescape option of the process-wide nunjucks environment
    earlier,   \* history: one earlier call, what it was given and what it returned
    session    \* the agent session the embedded runner sets up around the prompt

vars == <<fs, params, pc, template, result, autoescape, earlier, session>>

----------------------------------------------------------------------------
(* Strings *)

\* a literal of the source as a string
L(s) == IF s = "" THEN <<>> ELSE <<[lit |-> s, cs |-> <<>>]>>

\* a caller-supplied run of code units as a string
U(c) == IF c = <<>> THEN <<>> ELSE <<[lit |-> "", cs |-> c]>>

NL == L("\n")

\* ECMAScript WhiteSpace and LineTerminator code units below 128
IsSpace(c) == c \in {9, 10, 11, 12, 13, 32}

RECURSIVE TrimStart(_)
TrimStart(s) ==
    IF s = <<>> THEN <<>>
    ELSE IF IsSpace(Head(s)) THEN TrimStart(Tail(s)) ELSE s

RECURSIVE TrimEnd(_)
TrimEnd(s) ==
    IF s = <<>> THEN <<>>
    ELSE IF IsSpace(s[Len(s)]) THEN TrimEnd(SubSeq(s, 1, Len(s) - 1)) ELSE s

\* String.prototype.trim
trim(s) == TrimEnd(TrimStart(s))

LowerUnit(c) == IF c >= 65 /\ c <= 90 THEN c + 32 ELSE c

\* String.prototype.toLowerCase (ASCII range)
RECURSIVE toLowerCase(_)
toLowerCase(s) ==
    IF s = <<>> THEN <<>> ELSE <<LowerUnit(Head(s))>> \o toLowerCase(Tail(s))

\* a < b in the order of Array.prototype.sort without a comparator:
\* code unit by code unit, a proper prefix first
RECURSIVE StrLess(_, _)
StrLess(a, b) ==
    IF b = <<>> THEN FALSE
    ELSE IF a = <<>> THEN TRUE
    ELSE IF Head(a) # Head(b) THEN Head(a) < Head(b)
    ELSE StrLess(Tail(a), Tail(b))

RECURSIVE Insert(_, _)
Insert(x, sorted) ==
    IF sorted = <<>> THEN <<x>>
    ELSE IF StrLess(x, Head(sorted)) THEN <<x>> \o sorted
    ELSE <<Head(sorted)>> \o Insert(x, Tail(sorted))

\* mutant: the rest of the tools is left in input order
toSorted_unsorted(a) == a
\* Array.prototype.toSorted() on an array of strings
RECURSIVE toSorted(_)
toSorted(a) == IF a = <<>> THEN <<>> ELSE Insert(Head(a), toSorted(Tail(a)))

Range(a) == {a[i] : i \in 1..Len(a)}

\* Array.from(new Set(a)): first occurrences, in order
RECURSIVE Dedup(_)
Dedup(a) ==
    IF a = <<>> THEN <<>>
    ELSE LET init == Dedup(SubSeq(a, 1, Len(a) - 1))
             x == a[Len(a)]
         IN  IF x \in Range(init) THEN init ELSE Append(init, x)

NonEmpty(s) == s # <<>>

\* lines.filter(Boolean) on an array of strings
filterBoolean(a) == SelectSeq(a, NonEmpty)

\* Array.prototype.join(sep) on an array of strings (halving keeps the
\* evaluation shallow on the hundred lines of a prompt)
RECURSIVE join(_, _)
join(a, sep) ==
    IF Len(a) = 0 THEN <<>>
    ELSE IF Len(a) = 1 THEN a[1]
    ELSE LET h == Len(a) \div 2
         IN  join(SubSeq(a, 1, h), sep) \o sep \o join(SubSeq(a, h + 1, Len(a)), sep)

RECURSIVE MapTrim(_)
MapTrim(a) == IF a = <<>> THEN <<>> ELSE <<trim(Head(a))>> \o MapTrim(Tail(a))

RECURSIVE MapLower(_)
MapLower(a) == IF a = <<>> THEN <<>> ELSE <<toLowerCase(Head(a))>> \o MapLower(Tail(a))

\* a.filter(Boolean) on an array of code-unit strings
filterNonEmpty(a) == SelectSeq(a, NonEmpty)

\* an optional value: undefined, or a value
None == [has |-> FALSE, v |-> <<>>]
Some(x) == [has |-> TRUE, v |-> x]

----------------------------------------------------------------------------
(* Tool names of the source, as code units *)

T_read == <<114, 101, 97, 100>>   \* "read"
T_write == <<119, 114, 105, 116, 101>>   \* "write"
T_edit == <<101, 100, 105, 116>>   \* "edit"
T_apply_patch == <<97, 112, 112, 108, 121, 95, 112, 97, 116, 99, 104>>   \* "apply_patch"
T_grep == <<103, 114, 101, 112>>   \* "grep"
T_find == <<102, 105, 110, 100>>   \* "find"
T_ls == <<108, 115>>   \* "ls"
T_exec == <<101, 120, 101, 99>>   \* "exec"
T_process == <<112, 114, 111, 99, 101, 115, 115>>   \* "process"
T_web_search == <<119, 101, 98, 95, 115, 101, 97, 114, 99, 104>>   \* "web_search"
T_web_fetch == <<119, 101, 98, 95, 102, 101, 116, 99, 104>>   \* "web_fetch"
T_browser == <<98, 114, 111, 119, 115, 101, 114>>   \* "browser"
T_canvas == <<99, 97, 110, 118, 97, 115>>   \* "canvas"
T_nodes == <<110, 111, 100, 101, 115>>   \* "nodes"
T_cron == <<99, 114, 111, 110>>   \* "cron"
T_message == <<109, 101, 115, 115, 97, 103, 101>>   \* "message"
T_gateway == <<103, 97, 116, 101, 119, 97, 121>>   \* "gateway"
T_agents_list == <<97, 103, 101, 110, 116, 115, 95, 108, 105, 115, 116>>   \* "agents_list"
T_sessions_list == <<115, 101, 115, 115, 105, 111, 110, 115, 95, 108, 105, 115, 116>>   \* "sessions_list"
T_sessions_history == <<115, 101, 115, 115, 105, 111, 110, 115, 95, 104, 105, 115, 116, 111, 114, 121>>   \* "sessions_history"
T_sessions_send == <<115, 101, 115, 115, 105, 111, 110, 115, 95, 115, 101, 110, 100>>   \* "sessions_send"
T_session_status == <<115, 101, 115, 115, 105, 111, 110, 95, 115, 116, 97, 116, 117, 115>>   \* "session_status"
T_image == <<105, 109, 97, 103, 101>>   \* "image"
T_sessions_spawn == <<115, 101, 115, 115, 105, 111, 110, 115, 95, 115, 112, 97, 119, 110>>   \* "sessions_spawn"
T_memory_search == <<109, 101, 109, 111, 114, 121, 95, 115, 101, 97, 114, 99, 104>>   \* "memory_search"
T_memory_get == <<109, 101, 109, 111, 114, 121, 95, 103, 101, 116>>   \* "memory_get"
T_constructor == <<99, 111, 110, 115, 116, 114, 117, 99, 116, 111, 114>>   \* "constructor"
T_proto == <<95, 95, 112, 114, 111, 116, 111, 95, 95>>   \* "__proto__"

\* coreToolSummaries[tool]: the built-in description, <<>> for undefined.
\* The lookup is a property read on an object literal, so the two lowercase
\* keys of Object.prototype are found as well and stringify as shown.
coreToolSummaries(tool) ==
    CASE tool = T_read -> L("Read file contents")
      [] tool = T_write -> L("Create or overwrite files")
      [] tool = T_edit -> L("Make precise edits to files")
      [] tool = T_apply_patch -> L("Apply multi-file patches")
      [] tool = T_grep -> L("Search file contents for patterns")
      [] tool = T_find -> L("Find files by glob pattern")
      [] tool = T_ls -> L("List directory contents")
      [] tool = T_exec -> L("Run shell commands (pty available for TTY-required CLIs)")
      [] tool = T_process -> L("Manage background exec sessions")
      [] tool = T_web_search -> L("Search the web (Brave API)")
      [] tool = T_web_fetch -> L("Fetch and extract readable content from a URL")
      [] tool = T_browser -> L("Control web browser")
      [] tool = T_canvas -> L("Present/eval/snapshot the Canvas")
      [] tool = T_nodes -> L("List/describe/notify/camera/screen on paired nodes")
      [] tool = T_cron -> L("Manage cron jobs and wake events (use for reminders; when scheduling a reminder, write the systemEvent text as something that will read like a reminder when it fires, and mention that it is a reminder depending on the time gap between setting and firing; include recent context in reminder text if appropriate)")
      [] tool = T_message -> L("Send messages and channel actions")
      [] tool = T_gateway -> L("Restart, apply config, or run updates on the running OpenClaw process")
      [] tool = T_agents_list -> L("List agent ids allowed for sessions_spawn")
      [] tool = T_sessions_list -> L("List other sessions (incl. sub-agents) with filters/last")
      [] tool = T_sessions_history -> L("Fetch history for another session/sub-agent")
      [] tool = T_sessions_send -> L("Send a message to another session/sub-agent")
      [] tool = T_sessions_spawn -> L("Spawn a sub-agent session")
      [] tool = T_session_status -> L("Show a /status-equivalent status card (usage + time + Reasoning/Verbose/Elevated); use for model-use questions ([chart] session_status); optional per-session model override")
      [] tool = T_image -> L("Analyze an image with the configured image model")
      [] tool = T_constructor -> L("function Object() { [native code] }")
      [] tool = T_proto -> L("[object Object]")
      [] OTHER -> <<>>

toolOrder ==
    << T_read,
       T_write,
       T_edit,
       T_apply_patch,
       T_grep,
       T_find,
       T_ls,
       T_exec,
       T_process,
       T_web_search,
       T_web_fetch,
       T_browser,
       T_canvas,
       T_nodes,
       T_cron,
       T_message,
       T_gateway,
       T_agents_list,
       T_sessions_list,
       T_sessions_history,
       T_sessions_send,
       T_session_status,
       T_image >>

----------------------------------------------------------------------------
(* Tool listing: buildAgentSystemPrompt, lines 627-668 *)

OrElse(opt, dflt) == IF opt.has THEN opt.v ELSE dflt

rawToolNames(p) == MapTrim(OrElse(p.toolNames, <<>>))

canonicalToolNames(p) == filterNonEmpty(rawToolNames(p))

\* mutant: a later spelling of a name replaces the first one
canonicalByNormalized_lastWins(p, normalized) ==
    LET c == filterNonEmpty(MapTrim(IF p.toolNames.has THEN p.toolNames.v ELSE <<>>))
        idx == {i \in 1..Len(c) : toLowerCase(c[i]) = normalized}
    IN  IF idx = {} THEN None
        ELSE Some(c[CHOOSE i \in idx : \A j \in idx : i >= j])
\* canonicalByNormalized.get(normalized): the Map is filled in input order and
\* an entry is set only when the key is not there yet
canonicalByNormalized(p, normalized) ==
    LET c == canonicalToolNames(p)
        idx == {i \in 1..Len(c) : toLowerCase(c[i]) = normalized}
    IN  IF idx = {} THEN None
        ELSE Some(c[CHOOSE i \in idx : \A j \in idx : i <= j])

resolveToolName(p, normalized) == OrElse(canonicalByNormalized(p, normalized), normalized)

normalizedTools(p) == MapLower(canonicalToolNames(p))

availableTools(p) == Range(normalizedTools(p))

\* externalToolSummaries.get(tool): entries are set in Object.entries order,
\* a later entry with the same normalized key replaces an earlier one
externalToolSummaries(p, tool) ==
    LET e == OrElse(p.toolSummaries, <<>>)
        idx == {i \in 1..Len(e) :
                   /\ toLowerCase(trim(e[i].key)) # <<>>
                   /\ trim(e[i].value) # <<>>
                   /\ toLowerCase(trim(e[i].key)) = tool}
    IN  IF idx = {} THEN <<>>
        ELSE U(trim(e[CHOOSE i \in idx : \A j \in idx : i >= j].value))

extraTools(p) ==
    LET NotInOrder(tool) == tool \notin Range(toolOrder)
    IN  Dedup(SelectSeq(normalizedTools(p), NotInOrder))

\* mutant: the known tools are listed in input order
enabledTools_inputOrder(p) ==
    LET InOrder(tool) == tool \in Range(toolOrder)
    IN  Dedup(SelectSeq(normalizedTools(p), InOrder))
enabledTools(p) ==
    LET Has(tool) == tool \in availableTools(p)
    IN  SelectSeq(toolOrder, Has)

\* the body of the two loops that fill toolLines
toolLine(p, tool) ==
    LET core == coreToolSummaries(tool)
        summary == IF core # <<>> THEN core ELSE externalToolSummaries(p, tool)
        name == U(resolveToolName(p, tool))
    IN  IF summary # <<>> THEN L("- ") \o name \o L(": ") \o summary
        ELSE L("- ") \o name

toolLines(p) ==
    LET all == enabledTools(p) \o toSorted(extraTools(p))
    IN  [i \in 1..Len(all) |-> toolLine(p, all[i])]

\* mutant: the tool list is searched as given, untrimmed and in its own casing
hasGateway_exact(p) == T_gateway \in Range(OrElse(p.toolNames, <<>>))
hasGateway(p) == T_gateway \in availableTools(p)
readToolName(p) == resolveToolName(p, T_read)
execToolName(p) == resolveToolName(p, T_exec)
processToolName(p) == resolveToolName(p, T_process)

----------------------------------------------------------------------------
(* Section builders: each returns an array of strings *)

\* an array of source literals as an array of strings
LL(a) == [i \in 1..Len(a) |-> L(a[i])]

\* an array of caller-supplied strings as an array of strings
UU(a) == [i \in 1..Len(a) |-> U(a[i])]

\* truthiness of an optional string: neither undefined nor ""
Truthy(o) == o.has /\ o.v # <<>>

\* x?.trim() as an optional string
OptTrim(o) == IF o.has THEN Some(trim(o.v)) ELSE None

\* imported constants (../auto-reply/tokens.js, ../utils/message-channel.js)
SILENT_REPLY_TOKEN == L("${SILENT_REPLY_TOKEN}")
messageChannelOptions == L("${listDeliverableMessageChannels().join('|')}")

IDENTITY == L("You are a personal assistant running inside OpenClaw.")

promptMode(p) == IF p.promptMode = "undefined" THEN "full" ELSE p.promptMode

\* mutant: only "none" counts as minimal
isMinimal_noneOnly(p) == promptMode(p) = "none"
isMinimal(p) == promptMode(p) = "minimal" \/ promptMode(p) = "none"

buildSkillsSection(skillsPrompt, minimal, readTool) ==
    IF minimal THEN <<>>
    ELSE IF ~Truthy(OptTrim(skillsPrompt)) THEN <<>>
    ELSE << L("## Skills (mandatory)"),
            L("Before replying: scan <available_skills> <description> entries."),
            L("- If exactly one skill clearly applies: read its SKILL.md at <location> with ^")
                \o U(readTool) \o L("^, then follow it."),
            L("- If multiple could apply: choose the most specific one, then read/follow it."),
            L("- If none clearly apply: do not read any SKILL.md."),
            L("Constraints: never read more than one skill up front; only read after selecting."),
            U(trim(skillsPrompt.v)),
            <<>> >>

buildMemorySection(minimal, tools, citationsMode) ==
    IF minimal THEN <<>>
    ELSE IF T_memory_search \notin tools /\ T_memory_get \notin tools THEN <<>>
    ELSE << L("## Memory Recall"),
            L("Before answering anything about prior work, decisions, dates, people, preferences, or todos: run memory_search on MEMORY.md + memory/*.md; then use memory_get to pull only the needed lines. If low confidence after search, say you checked."),
            IF citationsMode = "off"
            THEN L("Citations are disabled: do not mention file paths or line numbers in replies unless the user explicitly asks.")
            ELSE L("Citations: include Source: <path#line> when it helps the user verify memory snippets."),
            <<>> >>

buildUserIdentitySection(ownerLine, minimal) ==
    IF ownerLine = <<>> \/ minimal THEN <<>>
    ELSE << L("## User Identity"), ownerLine, <<>> >>

buildTimeSection(userTimezone) ==
    IF ~Truthy(userTimezone) THEN <<>>
    ELSE << L("## Current Date & Time"),
            L("Time zone: ") \o U(userTimezone.v),
            L("If you need the current date, time, or day of week, run session_status ([chart] session_status)."),
            <<>> >>

buildReplyTagsSection(minimal) ==
    IF minimal THEN <<>>
    ELSE LL(<< "## Reply Tags",
               "To request a native reply/quote on supported surfaces, include one tag in your reply:",
               "- [[reply_to_current]] replies to the triggering message.",
               "- [[reply_to:<id>]] replies to a specific message id when you have it.",
               "Whitespace inside the tag is allowed (e.g. [[ reply_to_current ]] / [[ reply_to: 123 ]]).",
               "Tags are stripped before sending; support depends on the current channel config.",
               "" >>)

buildMessagingSection(minimal, tools, inlineButtonsEnabled, runtimeChannel, messageToolHints) ==
    IF minimal THEN <<>>
    ELSE << L("## Messaging"),
            L("- Reply in current session -> automatically routes to the source channel (Signal, Telegram, etc.)"),
            L("- Cross-session messaging -> use sessions_send(sessionKey, message)"),
            L("- Never use exec/curl for provider messaging; OpenClaw handles all routing internally."),
            IF T_message \in tools
            THEN join(filterBoolean(
                   << <<>>,
                      L("### message tool"),
                      L("- Use ^message^ for proactive sends + channel actions (polls, reactions, etc.)."),
                      L("- For ^action=send^, include ^to^ and ^message^."),
                      L("- If multiple channels are configured, pass ^channel^ (")
                          \o messageChannelOptions \o L(")."),
                      L("- If you use ^message^ (^action=send^) to deliver your user-visible reply, respond with ONLY: ")
                          \o SILENT_REPLY_TOKEN \o L(" (avoid duplicate replies)."),
                      IF inlineButtonsEnabled
                      THEN L("- Inline buttons supported. Use ^action=send^ with ^buttons=[[{text,callback_data}]]^ (callback_data routes back as a user message).")
                      ELSE IF Truthy(runtimeChannel)
                      THEN L("- Inline buttons not enabled for ") \o U(runtimeChannel.v)
                           \o L(". If you need them, ask to set ") \o U(runtimeChannel.v)
                           \o L(".capabilities.inlineButtons (\"dm\"|\"group\"|\"all\"|\"allowlist\").")
                      ELSE <<>> >>
                   \o UU(OrElse(messageToolHints, <<>>))), NL)
            ELSE <<>>,
            <<>> >>

\* mutant: the hint is shown in every mode
buildVoiceSection_anyMode(minimal, ttsHint) ==
    IF ~Truthy(OptTrim(ttsHint)) THEN <<>>
    ELSE << L("## Voice (TTS)"), U(trim(ttsHint.v)), <<>> >>
buildVoiceSection(minimal, ttsHint) ==
    IF minimal THEN <<>>
    ELSE IF ~Truthy(OptTrim(ttsHint)) THEN <<>>
    ELSE << L("## Voice (TTS)"), U(trim(ttsHint.v)), <<>> >>

buildDocsSection(docsPath, minimal, readTool) ==
    IF ~Truthy(OptTrim(docsPath)) \/ minimal THEN <<>>
    ELSE << L("## Documentation"),
            L("OpenClaw docs: ") \o U(trim(docsPath.v)),
            L("Mirror: https://docs.molt.bot"),
            L("Source: https://github.com/moltbot/moltbot"),
            L("Community: https://discord.com/invite/clawd"),
            L("Find new skills: https://clawdhub.com"),
            L("For OpenClaw behavior, commands, config, or architecture: consult local docs first."),
            L("When diagnosing issues, run ^moltbot status^ yourself when possible; only ask the user if you lack access (e.g., sandboxed)."),
            <<>> >>

\* mutant: no built-in list when there is no tool line
buildToolingSection_noFallback(lines, execTool, processTool, minimal) ==
    IF minimal THEN <<>>
    ELSE << L("## Tooling"),
            L("Tool availability (filtered by policy):"),
            L("Tool names are case-sensitive. Call tools exactly as listed."),
            join(lines, NL),
            L("TOOLS.md does not control tool availability; it is user guidance for how to use external tools."),
            L("If a task is more complex or takes longer, spawn a sub-agent. It will do the work for you and ping you when it's done. You can always check up on it."),
            <<>> >>
buildToolingSection(lines, execTool, processTool, minimal) ==
    IF minimal THEN <<>>
    ELSE LET toolContent ==
               IF Len(lines) > 0 THEN join(lines, NL)
               ELSE join(
                 << L("Pi lists the standard tools above. This runtime enables:"),
                    L("- grep: search file contents for patterns"),
                    L("- find: find files by glob pattern"),
                    L("- ls: list directory contents"),
                    L("- apply_patch: apply multi-file patches"),
                    L("- ") \o U(execTool) \o L(": run shell commands (supports background via yieldMs/background)"),
                    L("- ") \o U(processTool) \o L(": manage background exec sessions"),
                    L("- browser: control openclaw's dedicated browser"),
                    L("- canvas: present/eval/snapshot the Canvas"),
                    L("- nodes: list/describe/notify/camera/screen on paired nodes"),
                    L("- cron: manage cron jobs and wake events (use for reminders; when scheduling a reminder, write the systemEvent text as something that will read like a reminder when it fires, and mention that it is a reminder depending on the time gap between setting and firing; include recent context in reminder text if appropriate)"),
                    L("- sessions_list: list sessions"),
                    L("- sessions_history: fetch session history"),
                    L("- sessions_send: send to another session") >>, NL)
         IN << L("## Tooling"),
               L("Tool availability (filtered by policy):"),
               L("Tool names are case-sensitive. Call tools exactly as listed."),
               toolContent,
               L("TOOLS.md does not control tool availability; it is user guidance for how to use external tools."),
               L("If a task is more complex or takes longer, spawn a sub-agent. It will do the work for you and ping you when it's done. You can always check up on it."),
               <<>> >>

buildToolCallStyleSection ==
    LL(<< "## Tool Call Style",
          "Default: do not narrate routine, low-risk tool calls (just call the tool).",
          "Narrate only when it helps: multi-step work, complex/challenging problems, sensitive actions (e.g., deletions), or when the user explicitly asks.",
          "Keep narration brief and value-dense; avoid repeating obvious steps.",
          "Use plain human language for narration unless in a technical context.",
          "" >>)

buildSafetySection ==
    LL(<< "## Safety",
          "You have no independent goals: do not pursue self-preservation, replication, resource acquisition, or power-seeking; avoid long-term plans beyond the user's request.",
          "Prioritize safety and human oversight over completion; if instructions conflict, pause and ask; comply with stop/pause/audit requests and never bypass safeguards. (Inspired by Anthropic's constitution.)",
          "Do not manipulate or persuade anyone to expand access or disable safeguards. Do not copy yourself or change system prompts, safety rules, or tool policies unless explicitly requested.",
          "" >>)

buildOpenClawCLISection ==
    LL(<< "## OpenClaw CLI Quick Reference",
          "OpenClaw is controlled via subcommands. Do not invent commands.",
          "To manage the Gateway daemon service (start/stop/restart):",
          "- openclaw gateway status",
          "- openclaw gateway start",
          "- openclaw gateway stop",
          "- openclaw gateway restart",
          "If unsure, ask the user to run ^openclaw help^ (or ^openclaw gateway --help^) and paste the output.",
          "" >>)

buildOpenClawSelfUpdateSection(gateway, minimal) ==
    IF ~gateway \/ minimal THEN <<>>
    ELSE LL(<< "## OpenClaw Self-Update",
               "Get Updates (self-update) is ONLY allowed when the user explicitly asks for it.",
               "Do not run config.apply or update.run unless the user explicitly requests an update or config change; if it's not explicit, ask first.",
               "Actions: config.get, config.schema, config.apply (validate + write full config, then restart), update.run (update deps or git, then restart).",
               "After restart, OpenClaw pings the last active session automatically.",
               "" >>)

buildModelAliasesSection(modelAliasLines, minimal) ==
    IF ~modelAliasLines.has \/ Len(modelAliasLines.v) = 0 \/ minimal THEN <<>>
    ELSE << L("## Model Aliases"),
            L("Prefer aliases when specifying model overrides; full provider/model is also accepted.") >>
         \o UU(modelAliasLines.v)
         \o << <<>> >>

buildWorkspaceSection(workspaceDir, workspaceNotes) ==
    << L("## Workspace"),
       L("Your working directory is: ") \o U(workspaceDir),
       L("Treat this directory as the single global workspace for file operations unless explicitly instructed otherwise.") >>
    \o UU(workspaceNotes)
    \o << <<>> >>

\* a line pushed under a condition: the array without it when the condition fails
When(cond, line) == IF cond THEN <<line>> ELSE <<>>

buildSandboxSection(sb) ==
    IF ~sb.enabled THEN <<>>
    ELSE filterBoolean(
           << L("## Sandbox"),
              L("You are running in a sandboxed runtime (tools execute in Docker)."),
              L("Some tools may be unavailable due to sandbox policy."),
              L("Sub-agents stay sandboxed (no elevated/host access). Need outside-sandbox read/write? Don't spawn; ask first.") >>
           \o When(Truthy(sb.workspaceDir), L("Sandbox workspace: ") \o U(sb.workspaceDir.v))
           \o When(sb.workspaceAccess # "undefined",
                   L("Agent workspace access: ") \o L(sb.workspaceAccess)
                   \o (IF Truthy(sb.agentWorkspaceMount)
                       THEN L(" (mounted at ") \o U(sb.agentWorkspaceMount.v) \o L(")")
                       ELSE <<>>))
           \o When(Truthy(sb.browserBridgeUrl), L("Sandbox browser: enabled."))
           \o When(Truthy(sb.browserNoVncUrl),
                   L("Sandbox browser observer (noVNC): ") \o U(sb.browserNoVncUrl.v))
           \o (IF sb.hostBrowserAllowed = "true" THEN <<L("Host browser control: allowed.")>>
               ELSE IF sb.hostBrowserAllowed = "false" THEN <<L("Host browser control: blocked.")>>
               ELSE <<>>)
           \o (IF sb.elevated.present /\ sb.elevated.allowed
               THEN << L("Elevated exec is available for this session."),
                       L("User can toggle with /elevated on|off|ask|full."),
                       L("You may also send /elevated on|off|ask|full when needed."),
                       L("Current elevated level: ") \o L(sb.elevated.defaultLevel)
                         \o L(" (ask runs exec on host with approvals; full auto-approves).") >>
               ELSE <<>>))
         \o << <<>> >>

buildReactionsSection(reactionGuidance) ==
    IF ~reactionGuidance.present THEN <<>>
    ELSE LET channel == U(reactionGuidance.channel)
             guidanceText ==
               IF reactionGuidance.level = "minimal"
               THEN join(<< L("Reactions are enabled for ") \o channel \o L(" in MINIMAL mode."),
                            L("React ONLY when truly relevant:"),
                            L("- Acknowledge important user requests or confirmations"),
                            L("- Express genuine sentiment (humor, appreciation) sparingly"),
                            L("- Avoid reacting to routine messages or your own replies"),
                            L("Guideline: at most 1 reaction per 5-10 exchanges.") >>, NL)
               ELSE join(<< L("Reactions are enabled for ") \o channel \o L(" in EXTENSIVE mode."),
                            L("Feel free to react liberally:"),
                            L("- Acknowledge messages with appropriate emojis"),
                            L("- Express sentiment and personality through reactions"),
                            L("- React to interesting content, humor, or notable events"),
                            L("- Use reactions to confirm understanding or agreement"),
                            L("Guideline: react whenever it feels natural.") >>, NL)
         IN << L("## Reactions"), guidanceText, <<>> >>

buildReasoningFormatSection(reasoningHint) ==
    IF reasoningHint = <<>> THEN <<>>
    ELSE << L("## Reasoning Format"), reasoningHint, <<>> >>

\* file.path.trim().replace(/\\/g, "/").split("/").pop().toLowerCase()
RECURSIVE AfterLastSlash(_)
AfterLastSlash(s) ==
    IF \A i \in 1..Len(s) : s[i] \notin {47, 92} THEN s
    ELSE AfterLastSlash(Tail(s))

T_soul_md == <<115, 111, 117, 108, 46, 109, 100>>   \* "soul.md"

\* mutant: each file is put in front of the files before it
buildProjectContextSection_newestFirst(contextFiles) ==
    IF ~contextFiles.has \/ Len(contextFiles.v) = 0 THEN <<>>
    ELSE LET files == contextFiles.v
             RECURSIVE FileLines(_)
             FileLines(fsq) ==
               IF fsq = <<>> THEN <<>>
               ELSE FileLines(Tail(fsq))
                    \o << L("## ") \o U(Head(fsq).path), <<>>, U(Head(fsq).content), <<>> >>
         IN << L("# Project Context"),
               <<>>,
               L("The following project context files have been loaded:") >>
            \o When(\E i \in 1..Len(files) :
                        toLowerCase(AfterLastSlash(trim(files[i].path))) = T_soul_md,
                 L("If SOUL.md is present, embody its persona and tone. Avoid stiff, generic replies; follow its guidance unless higher-priority instructions override it."))
            \o << <<>> >>
            \o FileLines(files)
buildProjectContextSection(contextFiles) ==
    IF ~contextFiles.has \/ Len(contextFiles.v) = 0 THEN <<>>
    ELSE LET files == contextFiles.v
             hasSoulFile ==
               \E i \in 1..Len(files) :
                 toLowerCase(AfterLastSlash(trim(files[i].path))) = T_soul_md
             RECURSIVE FileLines(_)
             FileLines(fsq) ==
               IF fsq = <<>> THEN <<>>
               ELSE << L("## ") \o U(Head(fsq).path), <<>>, U(Head(fsq).content), <<>> >>
                    \o FileLines(Tail(fsq))
         IN << L("# Project Context"),
               <<>>,
               L("The following project context files have been loaded:") >>
            \o When(hasSoulFile,
                 L("If SOUL.md is present, embody its persona and tone. Avoid stiff, generic replies; follow its guidance unless higher-priority instructions override it."))
            \o << <<>> >>
            \o FileLines(files)

buildSilentRepliesSection(minimal) ==
    IF minimal THEN <<>>
    ELSE << L("## Silent Replies"),
            L("When you have nothing to say, respond with ONLY: ") \o SILENT_REPLY_TOKEN,
            <<>>,
            L("[warning] Rules:"),
            L("- It must be your ENTIRE message - nothing else"),
            L("- Never append it to an actual response (never include \"") \o SILENT_REPLY_TOKEN
                \o L("\" in real replies)"),
            L("- Never wrap it in markdown or code blocks"),
            <<>>,
            L("[x] Wrong: \"Here's help... ") \o SILENT_REPLY_TOKEN \o L("\""),
            L("[x] Wrong: \"") \o SILENT_REPLY_TOKEN \o L("\""),
            L("[v] Right: ") \o SILENT_REPLY_TOKEN,
            <<>> >>

\* mutant: no Heartbeats section without a heartbeat prompt
buildHeartbeatsSection_needsPrompt(heartbeatPrompt, minimal) ==
    IF minimal \/ ~Truthy(heartbeatPrompt) THEN <<>>
    ELSE << L("## Heartbeats"),
            L("Heartbeat prompt: ") \o U(heartbeatPrompt.v),
            <<>> >>
buildHeartbeatsSection(heartbeatPrompt, minimal) ==
    IF minimal THEN <<>>
    ELSE << L("## Heartbeats"),
            IF Truthy(heartbeatPrompt)
            THEN L("Heartbeat prompt: ") \o U(heartbeatPrompt.v)
            ELSE L("Heartbeat prompt: (configured)"),
            L("If you receive a heartbeat poll (a user message matching the heartbeat prompt above), and there is nothing that needs attention, reply exactly:"),
            L("HEARTBEAT_OK"),
            L("OpenClaw treats a leading/trailing \"HEARTBEAT_OK\" as a heartbeat ack (and may discard it)."),
            L("If something needs attention, do NOT include \"HEARTBEAT_OK\"; reply with the alert text instead."),
            <<>> >>

buildRuntimeSection(runtimeLine, reasoningLevel) ==
    << L("## Runtime"),
       runtimeLine,
       L("Reasoning: ") \o L(reasoningLevel)
         \o L(" (hidden unless on/stream). Toggle /reasoning; /status shows Reasoning when enabled.") >>

\* mutant: the header does not follow the mode
buildExtraSystemPromptSection_oneHeader(extraSystemPrompt, mode) ==
    IF ~Truthy(extraSystemPrompt) THEN <<>>
    ELSE << L("## Group Chat Context"), U(extraSystemPrompt.v), <<>> >>
buildExtraSystemPromptSection(extraSystemPrompt, mode) ==
    IF ~Truthy(extraSystemPrompt) THEN <<>>
    ELSE << IF mode = "minimal" THEN L("## Subagent Context") ELSE L("## Group Chat Context"),
            U(extraSystemPrompt.v),
            <<>> >>

\* mutant: the token is written whether or not the field is there
Token_unchecked(key, field) == L(key) \o (IF field.has THEN U(field.v) ELSE L("undefined"))
\* one key=value token of the runtime line, "" when the field is falsy
Token(key, field) == IF Truthy(field) THEN L(key) \o U(field.v) ELSE <<>>

\* mutant: no thinking token without a default think level
thinkingToken_optional(defaultThinkLevel) ==
    IF defaultThinkLevel = "undefined" THEN <<>> ELSE L("thinking=") \o L(defaultThinkLevel)
\* line 858: thinking=${defaultThinkLevel ?? "off"}
thinkingToken(defaultThinkLevel) ==
    L("thinking=") \o L(IF defaultThinkLevel = "undefined" THEN "off" ELSE defaultThinkLevel)

\* mutant: the capabilities are written whether or not there is a channel
capabilitiesToken_uncoupled(runtimeChannel, runtimeCapabilities) ==
    L("capabilities=")
    \o (IF Len(runtimeCapabilities) > 0
        THEN join(UU(runtimeCapabilities), L(","))
        ELSE L("none"))
\* lines 853-855
capabilitiesToken(runtimeChannel, runtimeCapabilities) ==
    IF Truthy(runtimeChannel)
    THEN L("capabilities=")
         \o (IF Len(runtimeCapabilities) > 0
             THEN join(UU(runtimeCapabilities), L(","))
             ELSE L("none"))
    ELSE <<>>

buildRuntimeLine(runtimeInfo, runtimeChannel, runtimeCapabilities, defaultThinkLevel) ==
    LET ri == runtimeInfo
        os == IF ri.present /\ Truthy(ri.os)
              THEN L("os=") \o U(ri.os.v)
                   \o (IF Truthy(ri.arch) THEN L(" (") \o U(ri.arch.v) \o L(")") ELSE <<>>)
              ELSE IF ri.present /\ Truthy(ri.arch) THEN L("arch=") \o U(ri.arch.v)
              ELSE <<>>
    IN  L("Runtime: ")
        \o join(filterBoolean(
             << IF ri.present THEN Token("agent=", ri.agentId) ELSE <<>>,
                IF ri.present THEN Token("host=", ri.host) ELSE <<>>,
                IF ri.present THEN Token("repo=", ri.repoRoot) ELSE <<>>,
                os,
                IF ri.present THEN Token("node=", ri.node) ELSE <<>>,
                IF ri.present THEN Token("model=", ri.model) ELSE <<>>,
                IF ri.present THEN Token("default_model=", ri.defaultModel) ELSE <<>>,
                Token("channel=", runtimeChannel),
                capabilitiesToken(runtimeChannel, runtimeCapabilities),
                thinkingToken(defaultThinkLevel) >>),
             L(" | "))

----------------------------------------------------------------------------
(* buildAgentSystemPrompt: normalisation of the inputs, lines 669-701 *)

extraSystemPrompt(p) == OptTrim(p.extraSystemPrompt)

\* mutant: the owner numbers are taken as given, blank ones included
ownerNumbers_unfiltered(p) == OrElse(p.ownerNumbers, <<>>)
ownerNumbers(p) == filterNonEmpty(MapTrim(OrElse(p.ownerNumbers, <<>>)))

\* undefined is the empty string here: both are falsy where ownerLine is read
ownerLine(p) ==
    IF Len(ownerNumbers(p)) > 0
    THEN L("Owner numbers: ") \o join(UU(ownerNumbers(p)), L(", "))
         \o L(". Treat messages from these numbers as the user.")
    ELSE <<>>

reasoningHint(p) ==
    IF p.reasoningTagHint
    THEN join(LL(<< "ALL internal reasoning MUST be inside <think>...</think>.",
                    "Do not output any analysis outside <think>.",
                    "Format every reply as <think>...</think> then <final>...</final>, with no other text.",
                    "Only the final user-visible reply may appear inside <final>.",
                    "Only text inside <final> is shown to the user; everything else is discarded and never seen by the user.",
                    "Example:",
                    "<think>Short internal reasoning.</think>",
                    "<final>Hey there! What would you like to do next?</final>" >>), L(" "))
    ELSE <<>>

reasoningLevel(p) == IF p.reasoningLevel = "undefined" THEN "off" ELSE p.reasoningLevel

\* mutant: the time of the caller is appended to the time zone
userTimezone_withTime(p) ==
    IF p.userTimezone.has /\ p.userTime.has
    THEN Some(trim(p.userTimezone.v) \o p.userTime.v)
    ELSE OptTrim(p.userTimezone)
userTimezone(p) == OptTrim(p.userTimezone)

skillsPrompt(p) == OptTrim(p.skillsPrompt)

heartbeatPrompt(p) == OptTrim(p.heartbeatPrompt)

runtimeChannel(p) ==
    IF p.runtimeInfo.present /\ p.runtimeInfo.channel.has
    THEN Some(toLowerCase(trim(p.runtimeInfo.channel.v)))
    ELSE None

runtimeCapabilities(p) ==
    IF p.runtimeInfo.present
    THEN filterNonEmpty(MapTrim(OrElse(p.runtimeInfo.capabilities, <<>>)))
    ELSE <<>>

T_inlinebuttons == <<105, 110, 108, 105, 110, 101, 98, 117, 116, 116, 111, 110, 115>>   \* "inlinebuttons"

inlineButtonsEnabled(p) == T_inlinebuttons \in Range(MapLower(runtimeCapabilities(p)))

workspaceNotes(p) == filterNonEmpty(MapTrim(OrElse(p.workspaceNotes, <<>>)))

\* params.sandboxInfo ?? { enabled: false }
NoSandbox ==
    [present |-> TRUE, enabled |-> FALSE, workspaceDir |-> None,
     workspaceAccess |-> "undefined", agentWorkspaceMount |-> None,
     browserBridgeUrl |-> None, browserNoVncUrl |-> None,
     hostBrowserAllowed |-> "undefined",
     elevated |-> [present |-> FALSE, allowed |-> FALSE, defaultLevel |-> "off"]]

\* mutant: a missing descriptor counts as an enabled sandbox
sandboxInfo_enabledByDefault(p) ==
    IF p.sandboxInfo.present THEN p.sandboxInfo ELSE [NoSandbox EXCEPT !.enabled = TRUE]
sandboxInfo(p) == IF p.sandboxInfo.present THEN p.sandboxInfo ELSE NoSandbox

----------------------------------------------------------------------------
(* The SYSTEM.md override: lines 58-70 and 703-738 *)

\* mutant: only a missing file is caught, any other failure of the read is thrown
readSystemTemplateSync_missingOnly(file) ==
    IF file.kind = "file"
    THEN [threw |-> FALSE, has |-> TRUE, v |-> file.content]
    ELSE [threw |-> file.kind = "unreadable", has |-> FALSE, v |-> <<>>]
\* readSystemTemplateSync: the content of the file, null (None) when the read throws
\* (threw stays FALSE: the catch clause takes every exception of the read)
readSystemTemplateSync(file) ==
    IF file.kind = "file"
    THEN [threw |-> FALSE, has |-> TRUE, v |-> file.content]
    ELSE [threw |-> FALSE, has |-> FALSE, v |-> <<>>]

\* mutant: the tool lines are joined on one line
toolList_commaJoined(p) == join(toolLines(p), L(", "))
\* line 731: toolLines.join("\n")
toolList(p) == join(toolLines(p), NL)

Bool(b) == IF b THEN L("true") ELSE L("false")

OptU(o) == IF o.has THEN U(o.v) ELSE <<>>

\* the context object handed to the template engine: each variable with the
\* text the engine prints for it (undefined and null print as nothing)
TemplateContext(p) ==
    [workspaceDir |-> U(p.workspaceDir),
     docsPath |-> OptU(p.docsPath),
     sandboxEnabled |-> IF p.sandboxInfo.present THEN Bool(p.sandboxInfo.enabled) ELSE <<>>,
     sandboxWorkspaceDir |-> IF p.sandboxInfo.present THEN OptU(p.sandboxInfo.workspaceDir) ELSE <<>>,
     sandboxAgentWorkspaceMount |->
         IF p.sandboxInfo.present THEN OptU(p.sandboxInfo.agentWorkspaceMount) ELSE <<>>,
     hasGateway |-> Bool(hasGateway(p)),
     isMinimal |-> Bool(isMinimal(p)),
     promptMode |-> L(promptMode(p)),
     ownerLine |-> ownerLine(p),
     userTimezone |-> OptU(userTimezone(p)),
     heartbeatPrompt |-> OptU(heartbeatPrompt(p)),
     reasoningLevel |-> IF p.reasoningLevel = "undefined" THEN <<>> ELSE L(p.reasoningLevel),
     defaultThinkLevel |-> IF p.defaultThinkLevel = "undefined" THEN <<>> ELSE L(p.defaultThinkLevel),
     modelAliasLines |-> join(UU(OrElse(p.modelAliasLines, <<>>)), L(",")),
     workspaceNotes |-> join(UU(workspaceNotes(p)), L(",")),
     extraSystemPrompt |-> OptU(p.extraSystemPrompt),
     reactionGuidance |-> IF p.reactionGuidance.present THEN L("[object Object]") ELSE <<>>,
     runtimeInfo |-> IF p.runtimeInfo.present THEN L("[object Object]") ELSE <<>>,
     contextFiles |->
         IF p.contextFiles.has
         THEN join([i \in 1..Len(p.contextFiles.v) |-> L("[object Object]")], L(","))
         ELSE <<>>,
     messageChannelOptions |-> messageChannelOptions,
     inlineButtonsEnabled |-> Bool(inlineButtonsEnabled(p)),
     runtimeChannel |-> OptU(runtimeChannel(p)),
     ttsHint |-> OptU(p.ttsHint),
     messageToolHints |-> join(UU(OrElse(p.messageToolHints, <<>>)), L(",")),
     toolList |-> toolList(p),
     execToolName |-> U(execToolName(p)),
     processToolName |-> U(processToolName(p)),
     readToolName |-> U(readToolName(p)),
     availableTools |-> L("[object Set]")]

\* one node of a template: literal text, {{ name }}, or
\* {% if availableTools.has(tool) %}yes{% else %}no{% endif %}
RenderNode(node, context, tools) ==
    CASE node.kind = "text" -> L(node.s)
      [] node.kind = "var" ->
            IF node.s \in DOMAIN context THEN context[node.s] ELSE <<>>
      [] node.kind = "ifHas" ->
            IF node.tool \in tools THEN L(node.yes) ELSE L(node.no)

RECURSIVE RenderNodes(_, _, _)
RenderNodes(nodes, context, tools) ==
    IF nodes = <<>> THEN <<>>
    ELSE RenderNode(Head(nodes), context, tools) \o RenderNodes(Tail(nodes), context, tools)

\* renderTemplate: nunjucks.renderString(template, context), autoescape off
renderTemplate(tpl, p) == RenderNodes(tpl, TemplateContext(p), availableTools(p))

----------------------------------------------------------------------------
(* The default path: lines 740-824 *)

\* mutant: the marker is written only when context files are supplied
WorkspaceFilesLines_whenFiles(p) ==
    IF p.contextFiles.has /\ Len(p.contextFiles.v) > 0
    THEN << L("## Workspace Files (injected)"),
            L("These user-editable files are loaded by OpenClaw and included below in Project Context."),
            <<>> >>
    ELSE <<>>
\* lines 780-782: three elements of the array literal, whatever the input
WorkspaceFilesLines(p) ==
    << L("## Workspace Files (injected)"),
       L("These user-editable files are loaded by OpenClaw and included below in Project Context."),
       <<>> >>

\* the array literal of lines 745-795
InitialLines(p) ==
    << IDENTITY, <<>> >>
    \o buildToolingSection(toolLines(p), execToolName(p), processToolName(p), isMinimal(p))
    \o buildToolCallStyleSection
    \o buildSafetySection
    \o buildOpenClawCLISection
    \o buildOpenClawSelfUpdateSection(hasGateway(p), isMinimal(p))
    \o buildModelAliasesSection(p.modelAliasLines, isMinimal(p))
    \o buildSkillsSection(skillsPrompt(p), isMinimal(p), readToolName(p))
    \o buildMemorySection(isMinimal(p), availableTools(p), p.memoryCitationsMode)
    \o buildWorkspaceSection(p.workspaceDir, workspaceNotes(p))
    \o buildDocsSection(p.docsPath, isMinimal(p), readToolName(p))
    \o buildSandboxSection(sandboxInfo(p))
    \o buildUserIdentitySection(ownerLine(p), isMinimal(p))
    \o buildTimeSection(userTimezone(p))
    \o WorkspaceFilesLines(p)
    \o buildReplyTagsSection(isMinimal(p))
    \o buildMessagingSection(isMinimal(p), availableTools(p), inlineButtonsEnabled(p),
                             runtimeChannel(p), p.messageToolHints)
    \o buildVoiceSection(isMinimal(p), p.ttsHint)
    \o buildProjectContextSection(p.contextFiles)
    \o buildExtraSystemPromptSection(extraSystemPrompt(p), promptMode(p))

\* what lines 797-822 push onto it
PushedLines(p) ==
    \* lines 797-802: the extra block is pushed once more
    (IF Truthy(extraSystemPrompt(p))
        THEN << IF promptMode(p) = "minimal"
                THEN L("## Subagent Context") ELSE L("## Group Chat Context"),
                U(extraSystemPrompt(p).v),
                <<>> >>
        ELSE <<>>)
    \o buildReactionsSection(p.reactionGuidance)
    \o buildReasoningFormatSection(reasoningHint(p))
    \o (IF ~isMinimal(p) THEN buildSilentRepliesSection(isMinimal(p)) ELSE <<>>)
    \o (IF ~isMinimal(p) THEN buildHeartbeatsSection(heartbeatPrompt(p), isMinimal(p)) ELSE <<>>)
    \o buildRuntimeSection(
         buildRuntimeLine(p.runtimeInfo, runtimeChannel(p), runtimeCapabilities(p),
                          p.defaultThinkLevel),
         reasoningLevel(p))

\* mutant: the pushed sections come before the array literal
DefaultLines_pushedFirst(p) == PushedLines(p) \o InitialLines(p)
DefaultLines(p) == InitialLines(p) \o PushedLines(p)

\* lines.filter(Boolean).join("\n")
DefaultPrompt(p) == join(filterBoolean(DefaultLines(p)), NL)

\* mutant: the template is used unless the read returned null
UsesTemplate_notNull(tpl) == tpl.has
\* the branch taken once the template has been read: lines 705, 741
UsesTemplate(tpl) == tpl.has /\ tpl.v # <<>>

----------------------------------------------------------------------------
(* Inputs *)

S_ws == <<47, 119, 115>>   \* "/ws"
S_sandbox_ws == <<47, 115, 97, 110, 100, 98, 111, 120, 47, 119, 115>>   \* "/sandbox/ws"
S_main == <<109, 97, 105, 110>>   \* "main"
S_UTC == <<85, 84, 67>>   \* "UTC"
S_blank == <<32, 32>>   \* "  "
S_SOUL == <<100, 111, 99, 115, 47, 83, 79, 85, 76, 46, 109, 100>>   \* "docs/SOUL.md"
S_kind == <<66, 101, 32, 107, 105, 110, 100>>   \* "Be kind"
S_topic == <<32, 83, 116, 97, 121, 32, 111, 110, 32, 116, 111, 112, 105, 99, 32>>   \* " Stay on topic "
S_docs == <<47, 116, 101, 115, 116, 47, 100, 111, 99, 115>>   \* "/test/docs"

NoRuntime ==
    [present |-> FALSE, agentId |-> None, host |-> None, os |-> None, arch |-> None,
     node |-> None, model |-> None, defaultModel |-> None, repoRoot |-> None,
     channel |-> None, capabilities |-> None]

NoReactions == [present |-> FALSE, level |-> "minimal", channel |-> <<>>]

\* the call of the tests: a workspace, sandboxInfo { enabled: false } and
\* runtimeInfo { agentId }, every other field undefined
BaseParams ==
    [workspaceDir |-> S_ws,
     defaultThinkLevel |-> "undefined",
     reasoningLevel |-> "undefined",
     extraSystemPrompt |-> None,
     ownerNumbers |-> None,
     reasoningTagHint |-> FALSE,
     toolNames |-> None,
     toolSummaries |-> None,
     modelAliasLines |-> None,
     userTimezone |-> None,
     userTime |-> None,
     userTimeFormat |-> "undefined",
     contextFiles |-> None,
     skillsPrompt |-> None,
     heartbeatPrompt |-> None,
     docsPath |-> None,
     workspaceNotes |-> None,
     ttsHint |-> None,
     promptMode |-> "undefined",
     runtimeInfo |-> [NoRuntime EXCEPT !.present = TRUE, !.agentId = Some(S_main)],
     messageToolHints |-> None,
     sandboxInfo |-> NoSandbox,
     reactionGuidance |-> NoReactions,
     memoryCitationsMode |-> "undefined"]

PromptModes == {"undefined", "full", "minimal", "none"}

Text(s) == [kind |-> "text", s |-> s, tool |-> <<>>, yes |-> "", no |-> ""]
Var(name) == [kind |-> "var", s |-> name, tool |-> <<>>, yes |-> "", no |-> ""]
IfHas(tool, yes, no) == [kind |-> "ifHas", s |-> "", tool |-> tool, yes |-> yes, no |-> no]

\* SYSTEM.md files of the tests (docs/concepts/system-prompt.md, lines 688-862)
TemplateVars ==
    << Text("TEMPLATE TEST: workspace="), Var("workspaceDir"), Text(" docs="), Var("docsPath") >>
TemplateBools ==
    << Text("sandbox="), Var("sandboxEnabled"), Text(" gateway="), Var("hasGateway"),
       Text(" minimal="), Var("isMinimal"), Text(" mode="), Var("promptMode") >>
TemplateTools ==
    << Text("## Tools\n"), Var("toolList"), Text("\nexec="), Var("execToolName"),
       Text(" read="), Var("readToolName"), Text(" process="), Var("processToolName"),
       Text(" "),
       IfHas(T_memory_search, "Memory enabled", "No memory") >>

Templates == {TemplateVars, TemplateBools, TemplateTools, <<>>}

Missing == [kind |-> "missing", content |-> <<>>]
Unreadable == [kind |-> "unreadable", content |-> <<>>]
File(content) == [kind |-> "file", content |-> content]

----------------------------------------------------------------------------
(* The state machine: one call of buildAgentSystemPrompt at a time, and the  *)
(* workspace file changing between calls.  The call is synchronous, so the  *)
(* file does not change inside it.                                          *)

TypeOK ==
    /\ fs.kind \in {"missing", "unreadable", "file"}
    /\ pc \in {"idle", "called", "read", "done", "threw"}
    /\ params.promptMode \in PromptModes
    /\ autoescape \in BOOLEAN
    /\ earlier.valid \in BOOLEAN
    /\ session.step \in {"none", "created", "applied", "ready"}

\* the history stops counting the calls in between at this number
MaxCallsBetween == 2

\* no session is open
NoSession ==
    [step |-> "none", hasSystemTemplate |-> FALSE, injected |-> <<>>, tools |-> <<>>,
     registry |-> {}, systemPrompt |-> <<>>, cleared |-> FALSE]

\* no earlier call is remembered
NoCall == [valid |-> FALSE, params |-> BaseParams, fs |-> Missing, result |-> <<>>, between |-> 0]

InitWith(P) ==
    /\ params \in P
    /\ fs = Missing
    /\ pc = "idle"
    /\ template = None
    /\ result = <<>>
    /\ autoescape = TRUE
    /\ earlier = NoCall
    /\ session = NoSession

\* the user writes SYSTEM.md
WriteTemplate(content) ==
    /\ pc = "idle"
    /\ fs' = File(content)
    /\ UNCHANGED <<params, pc, template, result, autoescape, earlier, session>>

\* the user removes SYSTEM.md
RemoveTemplate ==
    /\ pc = "idle"
    /\ fs.kind # "missing"
    /\ fs' = Missing
    /\ UNCHANGED <<params, pc, template, result, autoescape, earlier, session>>

\* SYSTEM.md is there and cannot be read (permissions, a directory, ...)
DenyTemplate ==
    /\ pc = "idle"
    /\ fs.kind # "unreadable"
    /\ fs' = Unreadable
    /\ UNCHANGED <<params, pc, template, result, autoescape, earlier, session>>

\* buildAgentSystemPrompt(params) is entered
Call ==
    /\ pc = "idle"
    /\ pc' = "called"
    /\ UNCHANGED <<fs, params, template, result, autoescape, earlier, session>>

\* line 704
ReadTemplate ==
    /\ pc = "called"
    /\ LET r == readSystemTemplateSync(fs)
       IN  IF r.threw
           THEN pc' = "threw" /\ UNCHANGED template
           ELSE pc' = "read" /\ template' = [has |-> r.has, v |-> r.v]
    /\ UNCHANGED <<fs, params, result, autoescape, earlier, session>>

\* mutant: the rendering is put in front of the default prompt
RenderOverride_prepends ==
    /\ pc = "read"
    /\ UsesTemplate(template)
    /\ result' = renderTemplate(template.v, params) \o NL \o DefaultPrompt(params)
    /\ pc' = "done"
    /\ autoescape' = FALSE
    /\ UNCHANGED <<fs, params, template, earlier, session>>
\* mutant: the template is rendered before nunjucks is configured, under the
\* autoescape option the call found (which escapes & in the values)
RenderOverride_rendersFirst ==
    LET RECURSIVE escapeUnits(_)
        escapeUnits(c) ==
            IF c = <<>> THEN <<>>
            ELSE (IF Head(c) = 38 THEN <<38, 97, 109, 112, 59>> ELSE <<Head(c)>>)
                 \o escapeUnits(Tail(c))
        escape(s) == [i \in 1..Len(s) |-> [lit |-> s[i].lit, cs |-> escapeUnits(s[i].cs)]]
        context == TemplateContext(params)
        escaped == [k \in DOMAIN context |-> escape(context[k])]
    IN  /\ pc = "read"
        /\ UsesTemplate(template)
        /\ result' = IF autoescape
                     THEN RenderNodes(template.v, escaped, availableTools(params))
                     ELSE renderTemplate(template.v, params)
        /\ pc' = "done"
        /\ autoescape' = FALSE
        /\ UNCHANGED <<fs, params, template, earlier, session>>
\* lines 705-738
RenderOverride ==
    /\ pc = "read"
    /\ UsesTemplate(template)
    /\ result' = renderTemplate(template.v, params)
    /\ pc' = "done"
    /\ autoescape' = FALSE
    /\ UNCHANGED <<fs, params, template, earlier, session>>

\* mutant: the identity section is returned, with the empty line that ends it
ReturnIdentity_section ==
    /\ pc = "read"
    /\ ~UsesTemplate(template)
    /\ promptMode(params) = "none"
    /\ result' = IDENTITY \o NL
    /\ pc' = "done"
    /\ UNCHANGED <<fs, params, template, autoescape, earlier, session>>
\* lines 741-743
ReturnIdentity ==
    /\ pc = "read"
    /\ ~UsesTemplate(template)
    /\ promptMode(params) = "none"
    /\ result' = IDENTITY
    /\ pc' = "done"
    /\ UNCHANGED <<fs, params, template, autoescape, earlier, session>>

\* lines 745-824
AssembleDefault ==
    /\ pc = "read"
    /\ ~UsesTemplate(template)
    /\ promptMode(params) # "none"
    /\ result' = DefaultPrompt(params)
    /\ pc' = "done"
    /\ UNCHANGED <<fs, params, template, autoescape, earlier, session>>

\* the caller takes the string (an attempt of the runner has disposed of its
\* session by then); the history counts the calls that came after the
\* remembered one with another input or another file
Return ==
    /\ pc = "done"
    /\ session.step = "none"
    /\ pc' = "idle"
    /\ template' = None
    /\ result' = <<>>
    /\ earlier' = IF /\ earlier.valid
                     /\ earlier.between < MaxCallsBetween
                     /\ (earlier.params # params \/ earlier.fs # fs)
                  THEN [earlier EXCEPT !.between = @ + 1]
                  ELSE earlier
    /\ UNCHANGED <<fs, params, autoescape, session>>

Next ==
    \/ \E content \in Templates : WriteTemplate(content)
    \/ RemoveTemplate
    \/ DenyTemplate
    \/ Call
    \/ ReadTemplate
    \/ RenderOverride
    \/ ReturnIdentity
    \/ AssembleDefault
    \/ Return

----------------------------------------------------------------------------
(* Specifications: the same program, started on different families of inputs *)

SandboxChoices ==
    { [NoSandbox EXCEPT !.present = FALSE],
      NoSandbox,
      [NoSandbox EXCEPT !.workspaceDir = Some(S_sandbox_ws), !.workspaceAccess = "rw",
                        !.hostBrowserAllowed = "true",
                        !.elevated = [present |-> TRUE, allowed |-> TRUE, defaultLevel |-> "ask"]],
      [NoSandbox EXCEPT !.enabled = TRUE],
      [NoSandbox EXCEPT !.enabled = TRUE, !.workspaceDir = Some(S_sandbox_ws)],
      [NoSandbox EXCEPT !.enabled = TRUE, !.workspaceDir = Some(S_sandbox_ws),
                        !.workspaceAccess = "ro", !.agentWorkspaceMount = Some(S_ws),
                        !.hostBrowserAllowed = "false",
                        !.elevated = [present |-> TRUE, allowed |-> TRUE, defaultLevel |-> "ask"]] }

\* sections: mode, sandbox, time zone, context files, extra prompt, tools
MainParams ==
    { [BaseParams EXCEPT !.promptMode = m, !.sandboxInfo = sb, !.userTimezone = tz,
                         !.contextFiles = cf, !.extraSystemPrompt = ex, !.toolNames = tn,
                         !.docsPath = IF ex.has THEN Some(S_docs) ELSE None,
                         !.heartbeatPrompt = IF cf.has THEN Some(S_kind) ELSE None] :
        m \in PromptModes,
        sb \in SandboxChoices,
        tz \in {None, Some(S_UTC), Some(S_blank)},
        cf \in {None, Some(<<[path |-> S_SOUL, content |-> S_kind]>>)},
        ex \in {None, Some(S_topic)},
        tn \in {None, Some(<<T_exec, T_read>>), Some(<<T_message, T_gateway, T_memory_get>>)} }

Init == InitWith(MainParams)

Spec == Init /\ [][Next]_vars

----------------------------------------------------------------------------
(* Tool lists *)

MaxToolNames == 3

S_Read_pad == <<32, 82, 101, 97, 100>>   \* " Read"
S_Zeta == <<90, 101, 116, 97>>   \* "Zeta"
S_zeta == <<122, 101, 116, 97>>   \* "zeta"
S_alpha == <<97, 108, 112, 104, 97>>   \* "alpha"
S_custom == <<32, 90, 101, 116, 97, 32, 116, 111, 111, 108, 32>>   \* " Zeta tool "
S_Zeta_pad == <<32, 90, 69, 84, 65, 32>>   \* " ZETA "

ToolPool == {T_exec, T_read, S_Read_pad, S_blank, S_Zeta, S_zeta, S_alpha}

ToolNameLists == UNION {[1..n -> ToolPool] : n \in 0..MaxToolNames}

SummaryChoices ==
    { None,
      Some(<< [key |-> T_exec, value |-> S_custom],
              [key |-> S_Zeta_pad, value |-> S_custom],
              [key |-> S_alpha, value |-> S_blank] >>) }

\* every list without summaries, the lists one name shorter with them as well
ToolParams ==
    { [BaseParams EXCEPT !.promptMode = "full", !.toolNames = tn] :
        tn \in {None} \cup {Some(l) : l \in ToolNameLists} }
    \cup { [BaseParams EXCEPT !.promptMode = "full", !.toolNames = Some(l),
                              !.toolSummaries = ts] :
             l \in {x \in ToolNameLists : Len(x) < MaxToolNames},
             ts \in SummaryChoices }
    \cup { [BaseParams EXCEPT !.promptMode = "none", !.toolNames = tn] :
             tn \in {None, Some(<<T_exec, T_read>>)} }

InitTools == InitWith(ToolParams)

SpecTools == InitTools /\ [][Next]_vars

----------------------------------------------------------------------------
(* Runtime descriptors *)

S_host == <<98, 111, 120>>   \* "box"
S_linux == <<76, 105, 110, 117, 120>>   \* "Linux"
S_arm == <<97, 114, 109, 54, 52>>   \* "arm64"
S_node == <<118, 50, 50>>   \* "v22"
S_model == <<99, 108, 97, 117, 100, 101, 45, 51, 45, 53>>   \* "claude-3-5"
S_Telegram == <<32, 84, 101, 108, 101, 103, 114, 97, 109, 32>>   \* " Telegram "
S_polls == <<112, 111, 108, 108, 115>>   \* "polls"
S_repo == <<47, 114, 101, 112, 111>>   \* "/repo"

RuntimeChoices ==
    { [present |-> TRUE, agentId |-> a, host |-> h, os |-> o, arch |-> ar,
       node |-> rest[1], model |-> mo, defaultModel |-> rest[2], repoRoot |-> rest[3],
       channel |-> ch, capabilities |-> caps] :
        a \in {None, Some(S_main), Some(<<>>)},
        h \in {None, Some(S_host)},
        o \in {None, Some(S_linux)},
        ar \in {None, Some(S_arm)},
        mo \in {None, Some(S_model)},
        rest \in { <<None, None, None>>, <<Some(S_node), Some(S_model), Some(S_repo)>> },
        ch \in {None, Some(S_Telegram), Some(S_blank)},
        caps \in {None, Some(<<>>), Some(<<T_inlinebuttons, S_blank, S_polls>>)} }
    \cup {NoRuntime}

RuntimeParams ==
    { [BaseParams EXCEPT !.promptMode = m, !.runtimeInfo = ri, !.defaultThinkLevel = th] :
        m \in {"minimal", "none"},
        ri \in RuntimeChoices,
        th \in {"undefined", "low"} }

InitRuntime == InitWith(RuntimeParams)

SpecRuntime == InitRuntime /\ [][Next]_vars

----------------------------------------------------------------------------
(* Reading a returned prompt *)

Lit(s) == [lit |-> s, cs |-> <<>>]
Units(c) == [lit |-> "", cs |-> c]
NLf == Lit("\n")

\* fragment i of s starts a line / ends a line
LineStart(s, i) == i = 1 \/ s[i - 1] = NLf
LineEnd(s, i) == i = Len(s) \/ s[i + 1] = NLf

\* the literal h is a whole line of s, at fragment i
HeaderAt(s, i, h) == s[i] = Lit(h) /\ LineStart(s, i) /\ LineEnd(s, i)
HasLine(s, h) == \E i \in 1..Len(s) : HeaderAt(s, i, h)

\* the line "<label><value>" is a whole line of s
HasLabelled(s, label, value) ==
    \E i \in 1..(Len(s) - 1) :
        /\ s[i] = Lit(label) /\ s[i + 1] = Units(value)
        /\ LineStart(s, i) /\ LineEnd(s, i + 1)

IdentityText == "You are a personal assistant running inside OpenClaw."

\* the first line of every section the assembler can emit
SectionHeaders ==
    { "## Tooling", "## Tool Call Style", "## Safety", "## OpenClaw CLI Quick Reference",
      "## OpenClaw Self-Update", "## Model Aliases", "## Skills (mandatory)",
      "## Memory Recall", "## Workspace", "## Documentation", "## Sandbox",
      "## User Identity", "## Current Date & Time", "## Workspace Files (injected)",
      "## Reply Tags", "## Messaging", "## Voice (TTS)", "# Project Context",
      "## Subagent Context", "## Group Chat Context", "## Reactions",
      "## Reasoning Format", "## Silent Replies", "## Heartbeats", "## Runtime" }

\* no fragment of s is the identity sentence or a section header
NoSectionText(s) ==
    \A i \in 1..Len(s) : s[i].lit \notin SectionHeaders \cup {IdentityText}

\* the call has returned and SYSTEM.md was not there, or not readable
DefaultDone(mode) ==
    pc = "done" /\ fs.kind # "file" /\ promptMode(params) = mode

----------------------------------------------------------------------------
(* C1: override precedence *)

\* C1 as stated: whenever SYSTEM.md exists, in every prompt mode, the call
\* returns exactly the rendering of the file against the template context and
\* nothing of the default path.
C1_OverrideWheneverFileExists ==
    (pc = "done" /\ fs.kind = "file") =>
        /\ result = RenderNodes(fs.content, TemplateContext(params), availableTools(params))
        /\ NoSectionText(result)

\* C1 amended: whenever SYSTEM.md exists with non-empty content, in every
\* prompt mode ("none" included), the call returns exactly the rendering of the
\* file against the template context and nothing of the default path.
C1_OverridePrecedence ==
    (pc = "done" /\ fs.kind = "file" /\ fs.content # <<>>) =>
        /\ result = RenderNodes(fs.content, TemplateContext(params), availableTools(params))
        /\ NoSectionText(result)

C1_Witness ==
    /\ pc = "done" /\ fs = File(TemplateBools)
    /\ params.promptMode = "none"
    /\ result # <<>>

----------------------------------------------------------------------------
(* C2: mode "none" *)

\* C2: with promptMode "none" and no override template, the call returns
\* exactly the identity sentence, with no newline after it and nothing else,
\* whatever the other input fields are.
C2_NoneIsIdentityOnly ==
    DefaultDone("none") => result = <<Lit(IdentityText)>>

C2_Witness ==
    /\ DefaultDone("none")
    /\ params.sandboxInfo.enabled /\ params.toolNames.has /\ params.contextFiles.has
    /\ params.extraSystemPrompt.has /\ params.userTimezone.has
    /\ result # <<>>

----------------------------------------------------------------------------
(* C3: a failed template lookup *)

\* C3: when SYSTEM.md is missing or cannot be read, the call does not raise
\* and returns what the default path returns for the same inputs: the identity
\* sentence in mode "none", the assembled sections otherwise.
C3_LookupFailureIsSilent ==
    /\ pc # "threw"
    /\ (pc = "done" /\ fs.kind # "file") =>
          result = IF promptMode(params) = "none" THEN <<Lit(IdentityText)>>
                   ELSE join(filterBoolean(DefaultLines(params)), NL)

C3_Witness ==
    /\ pc = "done" /\ fs.kind = "unreadable"
    /\ HasLine(result, "## Workspace")

----------------------------------------------------------------------------
(* C4, C5: mode "minimal" *)

C5_MinimalKeepsTooling ==
    DefaultDone("minimal") =>
        /\ HasLine(result, "## Tooling")
        /\ HasLine(result, "## Safety")
        /\ HasLine(result, "## Workspace")
        /\ (params.sandboxInfo.present /\ params.sandboxInfo.enabled
              => HasLine(result, "## Sandbox"))
        /\ (Truthy(OptTrim(params.userTimezone))
              => HasLine(result, "## Current Date & Time"))
        /\ HasLine(result, "## Runtime")
        /\ (params.contextFiles.has /\ params.contextFiles.v # <<>>
              => HasLine(result, "# Project Context"))

----------------------------------------------------------------------------
(* C6, C7, C8: the tool lines of the Tooling section *)

\* the lines of s, split at the newlines the program wrote
RECURSIVE SplitLines(_)
SplitLines(s) ==
    IF \A i \in 1..Len(s) : s[i] # NLf THEN <<s>>
    ELSE LET k == CHOOSE i \in 1..Len(s) :
                    s[i] = NLf /\ \A j \in 1..(i - 1) : s[j] # NLf
         IN  <<SubSeq(s, 1, k - 1)>> \o SplitLines(SubSeq(s, k + 1, Len(s)))

ToolingLead == "Tool names are case-sensitive. Call tools exactly as listed."
ToolingTail ==
    "TOOLS.md does not control tool availability; it is user guidance for how to use external tools."

\* the lines the Tooling section of s lists between its lead and its tail
EmittedToolLines(s) ==
    LET a == CHOOSE i \in 1..Len(s) : HeaderAt(s, i, ToolingLead)
        b == CHOOSE i \in 1..Len(s) : HeaderAt(s, i, ToolingTail)
    IN  SplitLines(SubSeq(s, a + 2, b - 2))

\* the tool name a tool line shows
ShownName(line) == line[2].cs

\* the distinct names of the input list: trimmed, lowercased, blanks dropped
InputNames(p) ==
    {toLowerCase(trim(x)) : x \in Range(IF p.toolNames.has THEN p.toolNames.v ELSE <<>>)}
        \ {<<>>}

CanonicalIndex(name) == CHOOSE i \in 1..Len(toolOrder) : toolOrder[i] = name

\* a is listed before b: by the priority list, then the rest in sort order
ListedBefore(a, b) ==
    IF a \in Range(toolOrder) /\ b \in Range(toolOrder)
    THEN CanonicalIndex(a) < CanonicalIndex(b)
    ELSE IF a \in Range(toolOrder) THEN TRUE
    ELSE IF b \in Range(toolOrder) THEN FALSE
    ELSE StrLess(a, b)

\* a full-mode default-path call with at least one tool name has returned
ToolsListed ==
    /\ pc = "done" /\ fs.kind # "file" /\ promptMode(params) = "full"
    /\ InputNames(params) # {}

\* C6: the tool lines list the tools of the canonical priority list first, in
\* that list's order, then every other tool sorted lexicographically (by the
\* lowercased name); the lines are those of the set of input names, so the
\* order of the input list does not show.
C6_ToolOrder ==
    ToolsListed =>
        LET tl == EmittedToolLines(result)
            shown == [i \in 1..Len(tl) |-> toLowerCase(ShownName(tl[i]))]
        IN  /\ Range(shown) = InputNames(params)
            /\ \A i, j \in 1..Len(tl) : i < j => ListedBefore(shown[i], shown[j])

C6_Witness ==
    /\ ToolsListed
    /\ params.toolNames.v = <<S_zeta, S_alpha, T_exec>>
    /\ Len(EmittedToolLines(result)) = 3
    /\ ShownName(EmittedToolLines(result)[1]) = T_exec

\* C7: each distinct lowercased (trimmed, non-empty) input name has exactly one
\* tool line, and the line shows the trimmed spelling of the first input entry
\* with that name.
C7_DedupFirstCasing ==
    ToolsListed =>
        LET tl == EmittedToolLines(result)
            in == params.toolNames.v
            Norm(x) == toLowerCase(trim(x))
        IN  /\ Len(tl) = Cardinality(InputNames(params))
            /\ \A i \in 1..Len(in) :
                 Norm(in[i]) # <<>> =>
                   LET first == CHOOSE j \in 1..Len(in) :
                                   /\ Norm(in[j]) = Norm(in[i])
                                   /\ \A k \in 1..(j - 1) : Norm(in[k]) # Norm(in[i])
                       at == {k \in 1..Len(tl) : toLowerCase(ShownName(tl[k])) = Norm(in[i])}
                   IN  /\ Cardinality(at) = 1
                       /\ \A k \in at : ShownName(tl[k]) = trim(in[first])

C7_Witness ==
    /\ ToolsListed
    /\ params.toolNames.v = <<S_Read_pad, T_read, S_Zeta>>
    /\ Len(EmittedToolLines(result)) = 2
    /\ ShownName(EmittedToolLines(result)[1]) = <<82, 101, 97, 100>>

ExecReadOnly ==
    /\ pc = "done" /\ fs.kind # "file" /\ promptMode(params) = "full"
    /\ params.toolNames = Some(<<T_exec, T_read>>)
    /\ params.toolSummaries = None

\* C8 as stated: for ["exec", "read"] and no descriptions from the caller the
\* read line comes before the exec line and each line is "- <name>" with no
\* description after it.
C8_BareToolLines ==
    ExecReadOnly =>
        EmittedToolLines(result) =
            << <<Lit("- "), Units(T_read)>>, <<Lit("- "), Units(T_exec)>> >>

\* C8 amended: for ["exec", "read"] and no descriptions from the caller the
\* read line comes before the exec line and each line is
\* "- <name>: <built-in description>".
C8_ExecReadLines ==
    ExecReadOnly =>
        EmittedToolLines(result) =
            << <<Lit("- "), Units(T_read), Lit(": "), Lit("Read file contents")>>,
               <<Lit("- "), Units(T_exec), Lit(": "),
                 Lit("Run shell commands (pty available for TTY-required CLIs)")>> >>

C8_Witness == ExecReadOnly /\ Len(EmittedToolLines(result)) = 2

----------------------------------------------------------------------------
(* C10: the tokens of the runtime line *)

\* the line under "## Runtime"
RuntimeLineOf(s) ==
    LET i == CHOOSE i \in 1..Len(s) : HeaderAt(s, i, "## Runtime")
    IN  SplitLines(SubSeq(s, i + 2, Len(s)))[1]

HasToken(line, key) == \E i \in 1..Len(line) : line[i] = Lit(key)

RuntimeShown == pc = "done" /\ fs.kind # "file" /\ promptMode(params) # "none"

\* the tokens that print one field of runtimeInfo
PlainTokens ==
    { <<"agent=", "agentId">>, <<"host=", "host">>, <<"repo=", "repoRoot">>,
      <<"os=", "os">>, <<"arch=", "arch">>, <<"node=", "node">>,
      <<"model=", "model">>, <<"default_model=", "defaultModel">>,
      <<"channel=", "channel">> }

\* the field is there and is not the empty string
Present(ri, field) == ri.present /\ ri[field].has /\ ri[field].v # <<>>

PlainTokensOnlyIfPresent(line, ri) ==
    \A t \in PlainTokens : HasToken(line, t[1]) => Present(ri, t[2])

\* C10 as stated: every token of the runtime line is there only if its source
\* field is present and non-empty, capabilities= and thinking= included.
C10_TokensOnlyIfPresent ==
    RuntimeShown =>
        LET line == RuntimeLineOf(result)
            ri == params.runtimeInfo
        IN  /\ PlainTokensOnlyIfPresent(line, ri)
            /\ (HasToken(line, "capabilities=") =>
                  ri.present /\ ri.capabilities.has /\ ri.capabilities.v # <<>>)
            /\ (HasToken(line, "thinking=") => params.defaultThinkLevel # "undefined")

\* C10 amended: agent, host, repo, os, arch, node, model, default_model and
\* channel are each there only if their source field is present and non-empty;
\* thinking= is always there ("off" when defaultThinkLevel is absent); and
\* capabilities= is there exactly when channel= is ("none" when no capability
\* is given).
C10_RuntimeTokens ==
    RuntimeShown =>
        LET line == RuntimeLineOf(result)
            ri == params.runtimeInfo
        IN  /\ PlainTokensOnlyIfPresent(line, ri)
            /\ HasToken(line, "thinking=")
            /\ (params.defaultThinkLevel = "undefined" =>
                  line[Len(line)] = Lit("off") /\ line[Len(line) - 1] = Lit("thinking="))
            /\ (HasToken(line, "capabilities=") <=> HasToken(line, "channel="))
            /\ (HasToken(line, "channel=") /\ ~(ri.capabilities.has /\ ri.capabilities.v # <<>>)
                  => \E i \in 1..(Len(line) - 1) :
                        line[i] = Lit("capabilities=") /\ line[i + 1] = Lit("none"))

C10_Witness ==
    /\ RuntimeShown
    /\ params.runtimeInfo.present
    /\ ~params.runtimeInfo.host.has /\ params.runtimeInfo.capabilities = Some(<<>>)
    /\ params.defaultThinkLevel = "undefined"
    /\ HasToken(RuntimeLineOf(result), "channel=")
    /\ HasToken(RuntimeLineOf(result), "agent=")

----------------------------------------------------------------------------
(* C9: the Sandbox section *)

SandboxNotice == "You are running in a sandboxed runtime (tools execute in Docker)."

\* C9: in the default path with mode full or minimal, a sandbox descriptor with
\* enabled = true gives a "## Sandbox" section whose next line is the
\* sandboxed-runtime notice and which names workspaceDir when that is given; a
\* descriptor with enabled = false, or none, gives no line of the section,
\* whatever its other fields are.
C9_SandboxSection ==
    (pc = "done" /\ fs.kind # "file" /\ promptMode(params) # "none") =>
        LET sb == params.sandboxInfo
        IN  IF sb.present /\ sb.enabled
            THEN /\ \E i \in 1..(Len(result) - 2) :
                        HeaderAt(result, i, "## Sandbox")
                        /\ HeaderAt(result, i + 2, SandboxNotice)
                 /\ (Truthy(sb.workspaceDir) =>
                        HasLabelled(result, "Sandbox workspace: ", sb.workspaceDir.v))
            ELSE \A i \in 1..Len(result) :
                    /\ result[i].lit \notin
                          {"## Sandbox", SandboxNotice, "Sandbox workspace: ",
                           "Agent workspace access: ", "Host browser control: allowed.",
                           "Elevated exec is available for this session."}
                    /\ (sb.workspaceDir.has => result[i] # Units(sb.workspaceDir.v))

C9_Witness ==
    /\ pc = "done" /\ fs.kind # "file" /\ promptMode(params) = "minimal"
    /\ params.sandboxInfo.enabled
    /\ HasLabelled(result, "Sandbox workspace: ", S_sandbox_ws)

C9_WitnessDisabled ==
    /\ pc = "done" /\ fs.kind # "file" /\ promptMode(params) = "full"
    /\ ~params.sandboxInfo.enabled /\ params.sandboxInfo.workspaceDir.has
    /\ HasLine(result, "## Workspace")

----------------------------------------------------------------------------
(* C11: the thinking token of the runtime line *)

\* runtimeInfo carries agentId and nothing else
OnlyAgentId(ri) ==
    /\ ri.present /\ ri.agentId.has /\ ri.agentId.v # <<>>
    /\ \A f \in {"host", "os", "arch", "node", "model", "defaultModel", "repoRoot",
                 "channel"} : ~ri[f].has

\* C11: the runtime line always ends with its thinking token, which is there
\* once and is "thinking=off" when no think level is given; for a descriptor
\* with only agentId and no think level the line is "agent=<id>" and
\* "thinking=off", with no host= and no channel= token.
C11_ThinkingTokenLast ==
    RuntimeShown =>
        LET line == RuntimeLineOf(result)
            n == Len(line)
        IN  /\ n >= 3
            /\ line[n - 1] = Lit("thinking=")
            /\ line[n - 2] \in {Lit(" | "), Lit("Runtime: ")}
            /\ \A i \in 1..n : line[i] = Lit("thinking=") => i = n - 1
            /\ (params.defaultThinkLevel = "undefined" => line[n] = Lit("off"))
            /\ (OnlyAgentId(params.runtimeInfo) /\ params.defaultThinkLevel = "undefined" =>
                  /\ line = << Lit("Runtime: "), Lit("agent="),
                               Units(params.runtimeInfo.agentId.v), Lit(" | "),
                               Lit("thinking="), Lit("off") >>
                  /\ ~HasToken(line, "host=") /\ ~HasToken(line, "channel="))

C11_Witness ==
    /\ RuntimeShown
    /\ OnlyAgentId(params.runtimeInfo) /\ params.defaultThinkLevel = "undefined"
    /\ HasToken(RuntimeLineOf(result), "agent=")
    /\ HasToken(RuntimeLineOf(result), "thinking=")

----------------------------------------------------------------------------
(* Sections: every optional input of a section, given, blank or left out *)

S_alias == <<102, 97, 115, 116, 58, 32, 97, 47, 98>>   \* "fast: a/b"
S_skills == <<60, 97, 118, 97, 105, 108, 97, 98, 108, 101, 95, 115, 107, 105, 108, 108, 115, 47, 62>>   \* "<available_skills/>"
S_owner == <<43, 49, 53, 53, 53>>   \* "+1555"
S_tts == <<32, 83, 112, 101, 97, 107, 32, 98, 114, 105, 101, 102, 108, 121, 32>>   \* " Speak briefly "
S_Gateway_pad == <<32, 71, 97, 116, 101, 119, 97, 121, 32>>   \* " Gateway "
S_Memory_Search == <<77, 101, 109, 111, 114, 121, 95, 83, 101, 97, 114, 99, 104>>   \* "Memory_Search"
S_note == <<75, 101, 101, 112, 32, 110, 111, 116, 101, 115>>   \* "Keep notes"

\* the inputs no optional section depends on its neighbours for: all given, or none
Loaded(p) ==
    [p EXCEPT !.sandboxInfo = [NoSandbox EXCEPT !.enabled = TRUE,
                                                !.workspaceDir = Some(S_sandbox_ws)],
              !.userTimezone = Some(S_UTC),
              !.contextFiles = Some(<<[path |-> S_SOUL, content |-> S_kind]>>),
              !.extraSystemPrompt = Some(S_topic),
              !.reactionGuidance = [present |-> TRUE, level |-> "minimal",
                                    channel |-> S_Telegram],
              !.reasoningTagHint = TRUE,
              !.heartbeatPrompt = Some(S_kind),
              !.workspaceNotes = Some(<<S_note>>)]

SectionToolLists ==
    { None,
      Some(<<S_Gateway_pad, T_message>>),
      Some(<<T_memory_get>>),
      Some(<<S_Memory_Search, T_gateway, T_read>>) }

\* each gated input given or left out, independently of the others
GivenOrNot ==
    { [BaseParams EXCEPT !.promptMode = m, !.modelAliasLines = al, !.skillsPrompt = sk,
                         !.ownerNumbers = ow, !.docsPath = dp, !.ttsHint = tt,
                         !.toolNames = tn] :
        m \in {"full", "minimal"},
        al \in {None, Some(<<S_alias>>)},
        sk \in {None, Some(S_skills)},
        ow \in {None, Some(<<S_owner>>)},
        dp \in {None, Some(S_docs)},
        tt \in {None, Some(S_tts)},
        tn \in SectionToolLists }

\* each gated input given, empty or blank, or left out
GivenBlankOrNot ==
    { [BaseParams EXCEPT !.promptMode = m, !.modelAliasLines = al, !.skillsPrompt = sk,
                         !.ownerNumbers = ow, !.docsPath = dp, !.ttsHint = tt,
                         !.userTimezone = tz, !.extraSystemPrompt = tz,
                         !.heartbeatPrompt = tz,
                         !.workspaceNotes = IF tz.has THEN Some(<<tz.v>>) ELSE None,
                         !.toolNames = IF tz.has THEN Some(<<tz.v>>) ELSE None,
                         !.contextFiles = IF tz.has THEN Some(<<>>) ELSE None] :
        m \in {"full", "minimal"},
        al \in {None, Some(<<>>), Some(<<S_alias>>)},
        sk \in {None, Some(S_blank), Some(S_skills)},
        ow \in {None, Some(<<S_blank>>), Some(<<S_owner>>)},
        dp \in {None, Some(<<>>), Some(S_docs)},
        tt \in {None, Some(S_blank), Some(S_tts)},
        tz \in {None, Some(S_blank), Some(<<>>)} }

\* mode none, where no section is assembled
NoSections ==
    { [BaseParams EXCEPT !.promptMode = "none"],
      Loaded([BaseParams EXCEPT !.promptMode = "none", !.toolNames = Some(<<T_gateway>>)]) }

SectionParams ==
    GivenOrNot \cup {Loaded(p) : p \in GivenOrNot} \cup GivenBlankOrNot \cup NoSections

InitSections == InitWith(SectionParams)

SpecSections == InitSections /\ [][Next]_vars

----------------------------------------------------------------------------
(* C12: the order of the sections *)

\* the first lines of the sections, in the order the specification fixes; the
\* two headers of the extra context share a place
SectionOrder ==
    << {IdentityText}, {"## Tooling"}, {"## Tool Call Style"}, {"## Safety"},
       {"## OpenClaw CLI Quick Reference"}, {"## OpenClaw Self-Update"},
       {"## Model Aliases"}, {"## Skills (mandatory)"}, {"## Memory Recall"},
       {"## Workspace"}, {"## Documentation"}, {"## Sandbox"}, {"## User Identity"},
       {"## Current Date & Time"}, {"## Workspace Files (injected)"}, {"## Reply Tags"},
       {"## Messaging"}, {"## Voice (TTS)"}, {"# Project Context"},
       {"## Subagent Context", "## Group Chat Context"}, {"## Reactions"},
       {"## Reasoning Format"}, {"## Silent Replies"}, {"## Heartbeats"}, {"## Runtime"} >>

Rank(h) == CHOOSE k \in 1..Len(SectionOrder) : h \in SectionOrder[k]

\* fragment i of s is the first line of a section
IsHeader(s, i) ==
    /\ s[i].lit \in SectionHeaders \cup {IdentityText}
    /\ HeaderAt(s, i, s[i].lit)

\* the call took the default path in mode full or minimal and has returned
SectionsDone == pc = "done" /\ fs.kind # "file" /\ promptMode(params) # "none"

\* C12: in every default-path output of mode full or minimal the sections that
\* are present follow the fixed order (identity, Tooling, Tool Call Style, ...,
\* Heartbeats, Runtime); the identity sentence is the first line and Runtime is
\* the last section.
C12_SectionOrder ==
    SectionsDone =>
        /\ LET headers == {i \in 1..Len(result) : IsHeader(result, i)}
           IN  \A i, j \in headers :
                  i < j => Rank(result[i].lit) <= Rank(result[j].lit)
        /\ HeaderAt(result, 1, IdentityText)
        /\ \E i \in 1..Len(result) :
              /\ HeaderAt(result, i, "## Runtime")
              /\ \A j \in (i + 1)..Len(result) : ~IsHeader(result, j)

\* a full-mode output in which every section is present
C12_Witness ==
    /\ SectionsDone
    /\ \A k \in 1..Len(SectionOrder) : \E h \in SectionOrder[k] : HasLine(result, h)

----------------------------------------------------------------------------
(* C13: blank lines between the sections *)

\* C13: in a default-path output every section but the first starts after an
\* empty line (two newlines before its header), and nowhere are there two
\* empty lines in a row (an omitted section leaves no gap).
C13_BlankLineBetweenSections ==
    SectionsDone =>
        /\ \A i \in 2..Len(result) :
              IsHeader(result, i) =>
                  i > 2 /\ result[i - 1] = NLf /\ result[i - 2] = NLf
        /\ \A i \in 1..(Len(result) - 2) :
              ~(result[i] = NLf /\ result[i + 1] = NLf /\ result[i + 2] = NLf)

----------------------------------------------------------------------------
(* C14: the extra context *)

\* the line after the header h, somewhere in s, is the caller's text
HeaderThenText(s, h, text) ==
    \E i \in 1..(Len(s) - 2) :
        HeaderAt(s, i, h) /\ s[i + 1] = NLf /\ s[i + 2] = Units(text)
        /\ LineEnd(s, i + 2)

\* C14: in the default path the extra block is there exactly when the extra
\* prompt is non-empty after trimming; its header is "## Subagent Context" in
\* mode minimal and "## Group Chat Context" otherwise, followed by the trimmed
\* text, and the other header is not in the output.
C14_ExtraContext ==
    SectionsDone =>
        LET ex == params.extraSystemPrompt
            given == ex.has /\ trim(ex.v) # <<>>
            own == IF promptMode(params) = "minimal"
                   THEN "## Subagent Context" ELSE "## Group Chat Context"
            other == IF promptMode(params) = "minimal"
                     THEN "## Group Chat Context" ELSE "## Subagent Context"
        IN  /\ given => HeaderThenText(result, own, trim(ex.v))
            /\ ~given => \A i \in 1..Len(result) : result[i] # Lit(own)
            /\ \A i \in 1..Len(result) : result[i] # Lit(other)

C14_Witness ==
    /\ SectionsDone /\ promptMode(params) = "minimal"
    /\ params.extraSystemPrompt = Some(S_topic)
    /\ HeaderThenText(result, "## Subagent Context", trim(S_topic))

C14_WitnessBlank ==
    /\ SectionsDone /\ promptMode(params) = "full"
    /\ params.extraSystemPrompt = Some(S_blank)
    /\ HasLine(result, "## Runtime")

----------------------------------------------------------------------------
(* Calls with changing inputs: the caller passes another context between two *)
(* calls, and the history remembers one earlier call                        *)

S_amp == <<47, 97, 38, 98>>   \* "/a&b"

S_time == <<49, 50, 58, 51, 48>>   \* "12:30"

\* a docs path, a time zone, a time zone with the time and its format, a blank
\* time zone with the time
CallVariants ==
    { [BaseParams EXCEPT !.docsPath = Some(S_amp)],
      [BaseParams EXCEPT !.userTimezone = Some(S_UTC)],
      [BaseParams EXCEPT !.userTimezone = Some(S_UTC), !.userTime = Some(S_time),
                         !.userTimeFormat = "12"],
      [BaseParams EXCEPT !.userTimezone = Some(S_blank), !.userTime = Some(S_time)] }

CallParams ==
    { [v EXCEPT !.promptMode = m] : m \in {"full", "minimal", "none"}, v \in CallVariants }

\* the caller prepares another context for the next call
NewInput(p) ==
    /\ pc = "idle"
    /\ p # params
    /\ params' = p
    /\ UNCHANGED <<fs, pc, template, result, autoescape, earlier, session>>

\* history: the call that has just returned is the one remembered from now on
Remember ==
    /\ pc = "done"
    /\ earlier' = [valid |-> TRUE, params |-> params, fs |-> fs, result |-> result,
                   between |-> 0]
    /\ UNCHANGED <<fs, params, pc, template, result, autoescape, session>>

NextCalls ==
    \/ Next
    \/ \E p \in CallParams : NewInput(p)
    \/ Remember

InitCalls == InitWith(CallParams)

SpecCalls == InitCalls /\ [][NextCalls]_vars

----------------------------------------------------------------------------
(* C15: determinism *)

\* the call that has just returned was given what the remembered call was given
SameInputAsEarlier ==
    pc = "done" /\ earlier.valid /\ earlier.params = params /\ earlier.fs = fs

----------------------------------------------------------------------------
(* C16: absent, empty and blank optional inputs *)

\* an optional string is given: present and not blank
Given(o) == o.has /\ trim(o.v) # <<>>

\* an optional list of strings has an entry that is not blank
AnyGiven(o) == o.has /\ \E i \in 1..Len(o.v) : trim(o.v[i]) # <<>>

\* the sections whose input is absent, empty or blank are not in the output
\* (Heartbeats and Tooling aside)
UngivenSectionsOmitted ==
    LET Omitted(h) == \A i \in 1..Len(result) : result[i] # Lit(h)
    IN  /\ ~Given(params.skillsPrompt) => Omitted("## Skills (mandatory)")
        /\ ~(params.modelAliasLines.has /\ params.modelAliasLines.v # <<>>)
              => Omitted("## Model Aliases")
        /\ ~AnyGiven(params.ownerNumbers) => Omitted("## User Identity")
        /\ ~Given(params.docsPath) => Omitted("## Documentation")
        /\ ~Given(params.ttsHint) => Omitted("## Voice (TTS)")
        /\ ~Given(params.userTimezone) => Omitted("## Current Date & Time")
        /\ ~(params.contextFiles.has /\ params.contextFiles.v # <<>>)
              => Omitted("# Project Context")
        /\ ~Given(params.extraSystemPrompt)
              => Omitted("## Subagent Context") /\ Omitted("## Group Chat Context")
        /\ ~params.reactionGuidance.present => Omitted("## Reactions")
        /\ ~params.reasoningTagHint => Omitted("## Reasoning Format")
        /\ ~params.sandboxInfo.present => Omitted("## Sandbox")

----------------------------------------------------------------------------
(* C17: the time section *)

\* two inputs that are equal but for userTime and userTimeFormat
SameButTime(a, b) ==
    [a EXCEPT !.userTime = None, !.userTimeFormat = "undefined"]
        = [b EXCEPT !.userTime = None, !.userTimeFormat = "undefined"]

----------------------------------------------------------------------------
(* C18: the input-gated sections in modes minimal and full *)

C18_WitnessFull ==
    /\ SectionsDone /\ promptMode(params) = "full"
    /\ ~params.skillsPrompt.has /\ params.docsPath = Some(<<>>)
    /\ params.ownerNumbers = Some(<<S_blank>>)
    /\ HasLine(result, "## Voice (TTS)") /\ HasLine(result, "## Model Aliases")

----------------------------------------------------------------------------
(* C19: the tool-gated sections *)

\* C19: in the default path "## OpenClaw Self-Update" is there exactly when
\* the mode is full and the tool list has gateway, and "## Memory Recall"
\* exactly when the mode is full and the tool list has memory_search or
\* memory_get, the names of the list being trimmed and compared without case.
C19_ToolGatedSections ==
    SectionsDone =>
        LET full == promptMode(params) = "full"
            names == InputNames(params)
        IN  /\ HasLine(result, "## OpenClaw Self-Update") <=> (full /\ T_gateway \in names)
            /\ HasLine(result, "## Memory Recall")
                  <=> (full /\ (T_memory_search \in names \/ T_memory_get \in names))

\* mode full, the gateway tool written " Gateway " and no memory tool
C19_Witness ==
    /\ SectionsDone /\ promptMode(params) = "full"
    /\ params.toolNames = Some(<<S_Gateway_pad, T_message>>)
    /\ HasLine(result, "## OpenClaw Self-Update")
    /\ ~HasLine(result, "## Memory Recall")

\* mode full, the memory tool written "Memory_Search"
C19_WitnessMemory ==
    /\ SectionsDone /\ promptMode(params) = "full"
    /\ params.toolNames = Some(<<S_Memory_Search, T_gateway, T_read>>)
    /\ HasLine(result, "## Memory Recall")

----------------------------------------------------------------------------
(* C20: the sections that are always there *)

\* C20: every default-path output of mode full or minimal has the "## Tool
\* Call Style", "## Safety" and "## OpenClaw CLI Quick Reference" sections,
\* whatever the other inputs are; in mode full, with no optional input as with
\* any, it also has "## Tooling", "## Messaging", "## Silent Replies" and
\* "## Heartbeats".
C20_AlwaysPresent ==
    SectionsDone =>
        /\ HasLine(result, "## Tool Call Style")
        /\ HasLine(result, "## Safety")
        /\ HasLine(result, "## OpenClaw CLI Quick Reference")
        /\ (promptMode(params) = "full" =>
              /\ HasLine(result, "## Tooling")
              /\ HasLine(result, "## Messaging")
              /\ HasLine(result, "## Silent Replies")
              /\ HasLine(result, "## Heartbeats"))

\* mode full with no optional input
C20_Witness ==
    /\ SectionsDone
    /\ params = [BaseParams EXCEPT !.promptMode = "full"]
    /\ HasLine(result, "## Heartbeats") /\ HasLine(result, "## Safety")

\* mode minimal with every optional input
C20_WitnessMinimal ==
    /\ SectionsDone /\ promptMode(params) = "minimal"
    /\ params.reasoningTagHint /\ params.ttsHint.has /\ params.toolNames.has
    /\ HasLine(result, "## OpenClaw CLI Quick Reference")

----------------------------------------------------------------------------
(* Context files: lists of injected files, in either order *)

MaxContextFiles == 2

S_AGENTS == <<65, 71, 69, 78, 84, 83, 46, 109, 100>>   \* "AGENTS.md"
S_rules == <<82, 117, 108, 101, 115, 10, 10, 66, 101, 32, 98, 114, 105, 101, 102>>   \* "Rules\n\nBe brief"
S_TOOLS_pad == <<32, 84, 79, 79, 76, 83, 46, 109, 100>>   \* " TOOLS.md"

\* a file with two paragraphs, a file named SOUL.md, a file with no content
ContextFilePool ==
    { [path |-> S_AGENTS, content |-> S_rules],
      [path |-> S_SOUL, content |-> S_kind],
      [path |-> S_TOOLS_pad, content |-> <<>>] }

ContextFileLists == UNION {[1..n -> ContextFilePool] : n \in 0..MaxContextFiles}

ContextParams ==
    { [BaseParams EXCEPT !.promptMode = m, !.contextFiles = cf, !.extraSystemPrompt = ex] :
        m \in {"full", "minimal", "none"},
        cf \in {None} \cup {Some(l) : l \in ContextFileLists},
        ex \in {None, Some(S_topic)} }

InitContext == InitWith(ContextParams)

SpecContext == InitContext /\ [][Next]_vars

----------------------------------------------------------------------------
(* C21: the Project Context block *)

\* what the block shows of one file: the line "## <path>", then the content
\* when there is any
FileShown(file) ==
    <<Lit("## ")>>
    \o (IF file.path = <<>> THEN <<>> ELSE <<Units(file.path)>>)
    \o (IF file.content = <<>> THEN <<>> ELSE <<NLf, Units(file.content)>>)

\* the files of a list, one after the other, each on lines of its own
RECURSIVE FilesShown(_)
FilesShown(files) ==
    IF files = <<>> THEN <<>>
    ELSE IF Len(files) = 1 THEN FileShown(files[1])
    ELSE FileShown(files[1]) \o <<NLf>> \o FilesShown(Tail(files))

ProjectContextLead == "The following project context files have been loaded:"

\* the fragments t are in s from fragment i on, as whole lines
ShownAt(s, i, t) ==
    /\ i + Len(t) - 1 <= Len(s)
    /\ SubSeq(s, i, i + Len(t) - 1) = t
    /\ LineStart(s, i) /\ LineEnd(s, i + Len(t) - 1)

\* C21: in the default path with mode full or minimal the "# Project Context"
\* block is there exactly when at least one context file is supplied; then,
\* under the header and its lead, every supplied file is shown as "## <path>"
\* followed by its content, in the order the files were supplied, and a section
\* header or the end of the block follows the last file.
C21_ProjectContext ==
    SectionsDone =>
        LET cf == params.contextFiles
            supplied == cf.has /\ Len(cf.v) > 0
        IN  IF ~supplied
            THEN \A i \in 1..Len(result) :
                    result[i].lit \notin {"# Project Context", ProjectContextLead, "## "}
            ELSE \E i \in 1..Len(result) :
                    /\ HeaderAt(result, i, "# Project Context")
                    /\ HeaderAt(result, i + 2, ProjectContextLead)
                    /\ \E j \in {i + 4, i + 6} :
                          /\ ShownAt(result, j, FilesShown(cf.v))
                          /\ \A k \in (i + 3)..(j - 1) : result[k] # Lit("## ")
                          /\ IsHeader(result, j + Len(FilesShown(cf.v)) + 1)

\* two files, the file without content first
C21_Witness ==
    /\ SectionsDone /\ promptMode(params) = "minimal"
    /\ params.contextFiles =
          Some(<< [path |-> S_TOOLS_pad, content |-> <<>>],
                  [path |-> S_AGENTS, content |-> S_rules] >>)
    /\ HasLine(result, "# Project Context")
    /\ HasLabelled(result, "## ", S_AGENTS)

----------------------------------------------------------------------------
(* C22: the variables of the override template *)

\* the "Available Variables" table of docs/concepts/system-prompt.md
DocumentedVariables ==
    { "agentId", "promptMode", "tools", "safety", "skills", "openclawSelfUpdate",
      "workspace", "documentation", "contextFiles", "sandbox", "currentDateTime",
      "replyTags", "heartbeat", "runtimeInfo", "reasoning", "identity", "modelAliases" }

\* C22: when the override template is rendered, the context handed to it has
\* every variable of the documentation's "Available Variables" table: agentId,
\* promptMode, tools, safety, skills, openclawSelfUpdate, workspace,
\* documentation, contextFiles, sandbox, currentDateTime, replyTags, heartbeat,
\* runtimeInfo, reasoning, identity and modelAliases.
C22_DocumentedVariables ==
    (pc = "done" /\ UsesTemplate(template)) =>
        DocumentedVariables \subseteq DOMAIN TemplateContext(params)

----------------------------------------------------------------------------
(* Tool lists seen by both paths: the same call made without SYSTEM.md and   *)
(* with it, the first one remembered                                        *)

S_EXEC_pad == <<32, 69, 88, 69, 67, 32>>   \* " EXEC "
S_Process == <<80, 114, 111, 99, 101, 115, 115>>   \* "Process"

ToolCallPool == {T_exec, S_EXEC_pad, S_Process, S_Memory_Search, S_Zeta, S_blank}

ToolCallLists == UNION {[1..n -> ToolCallPool] : n \in 0..(MaxToolNames - 1)}

\* every list without descriptions, the lists one name shorter with them as well
ToolCallParams ==
    { [BaseParams EXCEPT !.promptMode = "full", !.toolNames = tn] :
        tn \in {None} \cup {Some(l) : l \in ToolCallLists} }
    \cup { [BaseParams EXCEPT !.promptMode = "full", !.toolNames = Some(l),
                              !.toolSummaries = ts] :
             l \in {x \in ToolCallLists : Len(x) < MaxToolNames - 1},
             ts \in SummaryChoices \ {None} }
    \cup { [BaseParams EXCEPT !.promptMode = m, !.toolNames = Some(<<S_EXEC_pad, S_Zeta>>)] :
             m \in {"minimal", "none"} }

NextToolCalls ==
    \/ Next
    \/ Remember

InitToolCalls == InitWith(ToolCallParams)

SpecToolCalls == InitToolCalls /\ [][NextToolCalls]_vars

----------------------------------------------------------------------------
(* C23: the tool variables of the override template *)

\* the spelling the caller gave a tool first, trimmed; the lowercase name when
\* the caller did not give the tool
FirstSeen(p, name) ==
    LET in == IF p.toolNames.has THEN p.toolNames.v ELSE <<>>
        at == {i \in 1..Len(in) : toLowerCase(trim(in[i])) = name}
    IN  IF at = {} THEN name
        ELSE trim(in[CHOOSE i \in at : \A j \in at : i <= j])

\* SYSTEM.md is the template that prints the tool variables, and has been rendered
ToolTemplateDone == pc = "done" /\ fs = File(TemplateTools)

\* where the rendering of the tool list ends
AfterToolList(s) == CHOOSE k \in 1..Len(s) : s[k] = Lit("\nexec=")

\* what the template printed for toolList
RenderedToolList(s) == SubSeq(s, 2, AfterToolList(s) - 1)

\* C23: in the override path toolList is the empty string when no tool name is
\* supplied and otherwise the tool lines, one per line, that the default path
\* listed for the same tool names and descriptions; availableTools.has(x)
\* holds exactly when x is the trimmed, lowercased form of a supplied name; and
\* execToolName, readToolName and processToolName are the spelling the caller
\* gave first, or the lowercase name when the tool is not supplied.
C23_TemplateToolVariables ==
    ToolTemplateDone =>
        LET k == AfterToolList(result)
            names == InputNames(params)
        IN  /\ result[1] = Lit("## Tools\n")
            /\ \E i \in 1..Len(result) : result[i] = Lit("\nexec=")
            /\ (names = {} => RenderedToolList(result) = <<>>)
            /\ (names # {} => Len(SplitLines(RenderedToolList(result))) = Cardinality(names))
            /\ ( /\ names # {} /\ promptMode(params) = "full"
                 /\ earlier.valid /\ earlier.params = params /\ earlier.fs.kind # "file"
                 => SplitLines(RenderedToolList(result)) = EmittedToolLines(earlier.result) )
            /\ SubSeq(result, k, Len(result)) =
                  << Lit("\nexec="), Units(FirstSeen(params, T_exec)),
                     Lit(" read="), Units(FirstSeen(params, T_read)),
                     Lit(" process="), Units(FirstSeen(params, T_process)),
                     Lit(" "),
                     Lit(IF T_memory_search \in names THEN "Memory enabled" ELSE "No memory") >>

\* the template rendered after the default path had listed the same tools
C23_Witness ==
    /\ ToolTemplateDone /\ promptMode(params) = "full"
    /\ earlier.valid /\ earlier.params = params /\ earlier.fs.kind # "file"
    /\ params.toolNames = Some(<<S_EXEC_pad, S_Memory_Search>>)
    /\ Len(SplitLines(RenderedToolList(result))) = 2
    /\ result[Len(result)] = Lit("Memory enabled")

\* the template rendered for a list of blank names
C23_WitnessNoTools ==
    /\ ToolTemplateDone
    /\ params.toolNames = Some(<<S_blank>>)
    /\ result[2] = Lit("\nexec=")

----------------------------------------------------------------------------
(* The agent session around the prompt: what the embedded runner does with    *)
(* the string (pi-embedded-runner/run/attempt.ts, as its tests describe it)   *)

\* the tools the SDK puts into a session created with empty tool arrays
SdkDefaultTools == <<"read", "bash", "edit", "write">>

\* the calls of the session tests
SessionParams ==
    { [BaseParams EXCEPT !.promptMode = m, !.toolNames = tn] :
        m \in {"undefined", "none"},
        tn \in {None, Some(<<T_read, T_write>>)} }

\* hasSystemTemplate: SYSTEM.md exists in the workspace (a file that is there
\* and cannot be read passes or fails the access check, as the cause decides)
hasSystemTemplate(file) ==
    CASE file.kind = "file" -> {TRUE}
      [] file.kind = "missing" -> {FALSE}
      [] OTHER -> BOOLEAN

\* createAgentSession({ tools: [], customTools: [], ... }): the agent starts
\* with no tool or with the SDK's default tools, as the SDK version decides;
\* the session's tool registry holds the SDK's tools
CreateSession ==
    /\ pc = "done"
    /\ session.step = "none"
    /\ \E has \in hasSystemTemplate(fs), injected \in {<<>>, SdkDefaultTools} :
          session' = [step |-> "created", hasSystemTemplate |-> has,
                      injected |-> injected, tools |-> injected,
                      registry |-> Range(SdkDefaultTools), systemPrompt |-> <<>>,
                      cleared |-> FALSE]
    /\ UNCHANGED <<fs, params, pc, template, result, autoescape, earlier>>

\* applySystemPromptOverrideToSession(session, systemPromptText)
ApplyOverride ==
    /\ session.step = "created"
    /\ session' = [session EXCEPT !.step = "applied", !.systemPrompt = result]
    /\ UNCHANGED <<fs, params, pc, template, result, autoescape, earlier>>

\* mutant: the tools are left as the SDK set them
ClearTools_skipped ==
    /\ session.step = "applied"
    /\ session' = [session EXCEPT !.step = "ready"]
    /\ UNCHANGED <<fs, params, pc, template, result, autoescape, earlier>>
\* if (hasSystemTemplate) { session.agent.setTools([]) }
ClearTools ==
    /\ session.step = "applied"
    /\ session' = IF session.hasSystemTemplate
                  THEN [session EXCEPT !.step = "ready", !.tools = <<>>, !.cleared = TRUE]
                  ELSE [session EXCEPT !.step = "ready"]
    /\ UNCHANGED <<fs, params, pc, template, result, autoescape, earlier>>

\* session.dispose()
Dispose ==
    /\ session.step = "ready"
    /\ session' = NoSession
    /\ UNCHANGED <<fs, params, pc, template, result, autoescape, earlier>>

NextSession ==
    \/ Next
    \/ CreateSession
    \/ ApplyOverride
    \/ ClearTools
    \/ Dispose

InitSession == InitWith(SessionParams)

SpecSession == InitSession /\ [][NextSession]_vars

----------------------------------------------------------------------------
(* C24: the tools of the session under an override *)

C24_WitnessNoTemplate ==
    /\ session.step = "ready" /\ fs.kind = "missing"
    /\ params.toolNames = Some(<<T_read, T_write>>)
    /\ session.tools = SdkDefaultTools

----------------------------------------------------------------------------
(* C25: no section twice *)

\* the lines of s that are the header h
Occurrences(s, h) == {i \in 1..Len(s) : HeaderAt(s, i, h)}

\* C25: in every default-path output each section header occurs at most once;
\* when an extra prompt is supplied (not blank) its block, the header of the
\* mode followed by the caller's text, occurs exactly once.
C25_NoSectionTwice ==
    SectionsDone =>
        /\ \A h \in SectionHeaders : Cardinality(Occurrences(result, h)) <= 1
        /\ (Given(params.extraSystemPrompt) =>
              LET own == IF promptMode(params) = "minimal"
                         THEN "## Subagent Context" ELSE "## Group Chat Context"
              IN  /\ Cardinality(Occurrences(result, own)) = 1
                  /\ Cardinality({i \in 1..Len(result) :
                        result[i] = Units(trim(params.extraSystemPrompt.v))}) = 1)

----------------------------------------------------------------------------
(* C26: an empty SYSTEM.md *)

\* SYSTEM.md exists and has no content, and the call has returned
EmptyTemplateDone == pc = "done" /\ fs = File(<<>>)

\* C26: when SYSTEM.md exists and is empty the call returns what the default
\* path returns, not the empty rendering: the identity sentence alone in mode
\* none, the assembled sections otherwise, the very string an earlier call
\* returned for the same input without a readable SYSTEM.md.
C26_EmptyTemplateIsNoOverride ==
    EmptyTemplateDone =>
        /\ result # <<>>
        /\ result[1] = Lit(IdentityText)
        /\ IF promptMode(params) = "none"
           THEN result = <<Lit(IdentityText)>>
           ELSE HasLine(result, "## Workspace") /\ HasLine(result, "## Runtime")
        /\ (earlier.valid /\ earlier.params = params /\ earlier.fs.kind # "file"
              => result = earlier.result)

\* the call made without SYSTEM.md, then again with the empty file
C26_Witness ==
    /\ EmptyTemplateDone /\ promptMode(params) = "full"
    /\ earlier.valid /\ earlier.params = params /\ earlier.fs.kind = "missing"
    /\ HasLine(result, "## Tooling")

----------------------------------------------------------------------------
(* C27: the Tooling section without tools *)

FallbackLead == "Pi lists the standard tools above. This runtime enables:"

\* the built-in list, as lines of fragments
FallbackLines ==
    << <<Lit(FallbackLead)>>,
       <<Lit("- grep: search file contents for patterns")>>,
       <<Lit("- find: find files by glob pattern")>>,
       <<Lit("- ls: list directory contents")>>,
       <<Lit("- apply_patch: apply multi-file patches")>>,
       <<Lit("- "), Units(T_exec),
         Lit(": run shell commands (supports background via yieldMs/background)")>>,
       <<Lit("- "), Units(T_process), Lit(": manage background exec sessions")>>,
       <<Lit("- browser: control openclaw's dedicated browser")>>,
       <<Lit("- canvas: present/eval/snapshot the Canvas")>>,
       <<Lit("- nodes: list/describe/notify/camera/screen on paired nodes")>>,
       <<Lit("- cron: manage cron jobs and wake events (use for reminders; when scheduling a reminder, write the systemEvent text as something that will read like a reminder when it fires, and mention that it is a reminder depending on the time gap between setting and firing; include recent context in reminder text if appropriate)")>>,
       <<Lit("- sessions_list: list sessions")>>,
       <<Lit("- sessions_history: fetch session history")>>,
       <<Lit("- sessions_send: send to another session")>> >>

\* the literals only the built-in list has
FallbackText ==
    ({FallbackLines[i][1] : i \in 1..Len(FallbackLines)}
        \cup {FallbackLines[6][3], FallbackLines[7][3]})
    \ {Lit("- ")}

FullDefaultDone == pc = "done" /\ fs.kind # "file" /\ promptMode(params) = "full"

\* C27: in mode full the "## Tooling" section is always there; with no tool
\* name (the list absent, empty or all blank) its body is the built-in list of
\* grep, find, ls, apply_patch, exec, process, browser, canvas, nodes, cron,
\* sessions_list, sessions_history and sessions_send, and with at least one tool
\* name its body is one line per supplied tool and nothing of the built-in
\* list.
C27_ToolingFallback ==
    FullDefaultDone =>
        /\ \E i \in 1..(Len(result) - 4) :
              /\ HeaderAt(result, i, "## Tooling")
              /\ HeaderAt(result, i + 4, ToolingLead)
        /\ HasLine(result, ToolingTail)
        /\ IF InputNames(params) = {}
           THEN EmittedToolLines(result) = FallbackLines
           ELSE /\ \A i \in 1..Len(result) : result[i] \notin FallbackText
                /\ LET tl == EmittedToolLines(result)
                   IN  /\ Len(tl) = Cardinality(InputNames(params))
                       /\ \A k \in 1..Len(tl) :
                             /\ tl[k][1] = Lit("- ")
                             /\ toLowerCase(ShownName(tl[k])) \in InputNames(params)

\* a list of blank names only
C27_Witness ==
    /\ FullDefaultDone
    /\ params.toolNames = Some(<<S_blank, S_blank>>)
    /\ HasLine(result, FallbackLead)

\* one tool name among blanks
C27_WitnessTools ==
    /\ FullDefaultDone
    /\ params.toolNames = Some(<<S_blank, S_zeta, S_blank>>)
    /\ Len(EmittedToolLines(result)) = 1

----------------------------------------------------------------------------
(* Described tools: tools with a built-in description, with a description of *)
(* the caller, with both, with neither                                      *)

MaxDescribed == 2

DescriptionPool == {T_exec, S_Zeta, S_alpha, T_constructor}

DescribedLists == UNION {[1..n -> DescriptionPool] : n \in 0..MaxDescribed}

\* no description, descriptions for exec, zeta and (blank) alpha, a
\* description for constructor
DescriptionChoices ==
    SummaryChoices \cup {Some(<< [key |-> T_constructor, value |-> S_custom] >>)}

DescriptionParams ==
    { [BaseParams EXCEPT !.promptMode = "full", !.toolNames = Some(l), !.toolSummaries = ts] :
        l \in DescribedLists, ts \in DescriptionChoices }
    \cup { [BaseParams EXCEPT !.promptMode = "none", !.toolNames = Some(<<T_constructor>>)] }

InitDescriptions == InitWith(DescriptionParams)

SpecDescriptions == InitDescriptions /\ [][Next]_vars

----------------------------------------------------------------------------
(* C28: which description a tool line shows *)

\* the tools the table of built-in descriptions has an entry for
HasBuiltIn(name) == name \in Range(toolOrder) \cup {T_sessions_spawn}

\* the descriptions the caller supplied for a tool: keyed by the trimmed,
\* lowercased name, trimmed, blank ones left out
CallerDescriptions(p, name) ==
    LET e == IF p.toolSummaries.has THEN p.toolSummaries.v ELSE <<>>
    IN  {trim(e[i].value) : i \in {j \in 1..Len(e) : toLowerCase(trim(e[j].key)) = name}}
            \ {<<>>}

\* C28: a tool with a built-in description is listed with it, whatever the
\* caller supplied for the tool; a tool without one is listed with the
\* caller's description when there is one, and as "- <name>" when there is
\* neither.
C28_DescriptionPrecedence ==
    ToolsListed =>
        LET tl == EmittedToolLines(result)
        IN  \A k \in 1..Len(tl) :
               LET line == tl[k]
                   name == toLowerCase(ShownName(line))
               IN  /\ line[1] = Lit("- ")
                   /\ IF HasBuiltIn(name)
                      THEN SubSeq(line, 3, Len(line)) = <<Lit(": ")>> \o coreToolSummaries(name)
                      ELSE IF CallerDescriptions(params, name) # {}
                      THEN /\ Len(line) = 4 /\ line[3] = Lit(": ")
                           /\ \E d \in CallerDescriptions(params, name) : line[4] = Units(d)
                      ELSE Len(line) = 2

----------------------------------------------------------------------------
(* C29: the Workspace Files marker *)

WorkspaceFilesNote ==
    "These user-editable files are loaded by OpenClaw and included below in Project Context."

\* C29: every default-path output of mode full or minimal has the line
\* "## Workspace Files (injected)" followed by the note that the files are
\* included below in Project Context, once, also when no context file is
\* supplied and no "# Project Context" block is in the output.
C29_WorkspaceFilesMarker ==
    SectionsDone =>
        /\ \E i \in 1..(Len(result) - 2) :
              /\ HeaderAt(result, i, "## Workspace Files (injected)")
              /\ HeaderAt(result, i + 2, WorkspaceFilesNote)
        /\ Cardinality(Occurrences(result, "## Workspace Files (injected)")) = 1
        /\ (~(params.contextFiles.has /\ Len(params.contextFiles.v) > 0)
              => ~HasLine(result, "# Project Context"))

\* no context file: the marker is there and the block it announces is not
C29_Witness ==
    /\ SectionsDone /\ promptMode(params) = "minimal"
    /\ params.contextFiles = Some(<<>>)
    /\ HasLine(result, "## Workspace Files (injected)")
    /\ ~HasLine(result, "# Project Context")

----------------------------------------------------------------------------
(* C30: the channel and the capabilities on the runtime line *)

\* the keys of the tokens, in the order of the line; os= and arch= share a place
TokenOrder ==
    << {"agent="}, {"host="}, {"repo="}, {"os=", "arch="}, {"node="}, {"model="},
       {"default_model="}, {"channel="}, {"capabilities="}, {"thinking="} >>

TokenKeys == UNION Range(TokenOrder)

TokenRank(key) == CHOOSE k \in 1..Len(TokenOrder) : key \in TokenOrder[k]

\* the capabilities of the descriptor, trimmed, the blank ones dropped
GivenCapabilities(ri) ==
    LET caps == IF ri.present /\ ri.capabilities.has THEN ri.capabilities.v ELSE <<>>
        NotBlank(c) == trim(c) # <<>>
        kept == SelectSeq(caps, NotBlank)
    IN  [i \in 1..Len(kept) |-> trim(kept[i])]

\* a list of capabilities with a comma between two neighbours
RECURSIVE CommaJoined(_)
CommaJoined(caps) ==
    IF caps = <<>> THEN <<>>
    ELSE IF Len(caps) = 1 THEN <<Units(caps[1])>>
    ELSE <<Units(caps[1]), Lit(",")>> \o CommaJoined(Tail(caps))

\* C30: on the runtime line the capabilities= token is there exactly when the
\* channel= token is (never without a channel, whatever capabilities are
\* supplied); it comes right after the channel token and its value is the
\* capability list joined by commas, or "none" when no capability is given;
\* the tokens come in the order agent, host, repo, os/arch, node, model,
\* default_model, channel, capabilities, thinking, each at most once, with
\* " | " between two neighbours.
C30_ChannelCoupling ==
    RuntimeShown =>
        LET line == RuntimeLineOf(result)
            ri == params.runtimeInfo
            keys == {i \in 1..Len(line) : line[i].lit \in TokenKeys}
            bars == {i \in 1..Len(line) : line[i] = Lit(" | ")}
            caps == GivenCapabilities(ri)
            value == IF caps = <<>> THEN <<Lit("none")>> ELSE CommaJoined(caps)
        IN  /\ line[1] = Lit("Runtime: ")
            /\ (HasToken(line, "capabilities=") <=> HasToken(line, "channel="))
            /\ (HasToken(line, "channel=")
                  <=> (ri.present /\ ri.channel.has /\ trim(ri.channel.v) # <<>>))
            /\ \A i \in keys :
                  line[i] = Lit("channel=") =>
                      /\ line[i + 1] = Units(toLowerCase(trim(ri.channel.v)))
                      /\ line[i + 2] = Lit(" | ")
                      /\ line[i + 3] = Lit("capabilities=")
                      /\ SubSeq(line, i + 4, i + 3 + Len(value)) = value
                      /\ line[i + 4 + Len(value)] = Lit(" | ")
            /\ \A i, j \in keys :
                  i < j => TokenRank(line[i].lit) < TokenRank(line[j].lit)
            /\ \A i \in keys :
                  line[i - 1] = IF i = 2 THEN Lit("Runtime: ") ELSE Lit(" | ")
            /\ Cardinality(bars) = Cardinality(keys) - 1

\* every token on the line, the capabilities among them
C30_Witness ==
    /\ RuntimeShown
    /\ params.runtimeInfo.capabilities = Some(<<T_inlinebuttons, S_blank, S_polls>>)
    /\ \A k \in 1..Len(TokenOrder) :
          \E key \in TokenOrder[k] : HasToken(RuntimeLineOf(result), key)

\* capabilities supplied and no channel
C30_WitnessNoChannel ==
    /\ RuntimeShown
    /\ params.runtimeInfo.capabilities = Some(<<T_inlinebuttons, S_blank, S_polls>>)
    /\ params.runtimeInfo.channel = Some(S_blank)
    /\ ~HasToken(RuntimeLineOf(result), "capabilities=")
    /\ HasToken(RuntimeLineOf(result), "thinking=")

====
